---- MODULE Spec2Model ----
(***************************************************************************)
(* A model of openapi-mcp-proxy: the OpenAPI specification loader with its  *)
(* cache (core/spec.py and the older mcp_cnb_knowledge/spec_loader.py), the *)
(* runtime configuration merge (core/config.py) and the process-wide proxy  *)
(* singletons (server.py, mcp_cnb_knowledge/server.py).                     *)
(*                                                                         *)
(* Python values are modelled as strings: None is the string "None", a      *)
(* number or a boolean is its printed form.  A source string is modelled by *)
(* what urlparse and pathlib make of it: a record of its scheme, its host   *)
(* and its path components.                                                 *)
(***************************************************************************)
EXTENDS Integers, Sequences, FiniteSets, TLC

VARIABLES
    variant,    \* which loader class is under test: "core" or "cnb"
    fname,      \* the file name of the local specification file
    fs,         \* the local specification file: exists, mtime, content
    remote,     \* what the HTTP server answers now
    cache,      \* OpenAPISpecLoader._cache: key -> _CacheEntry
    last,       \* the record of the most recent load call
    okDocs,     \* history: HTTP source -> document of its first successful load
    labels,     \* the source strings this process passes to load
    texts,      \* the contents the file or the server is given
    ios,        \* what the operating system may do to a call
    tick,       \* flips on every call of a modelled function
    registry,   \* openapi_mcp_proxy/server.py: _registry
    pinned,     \* mcp_cnb_knowledge/server.py: _OPENAPI_SOURCE
    mcp,        \* mcp_cnb_knowledge/server.py: _mcp_instance
    envSpec,    \* the environment variable MCP_OPENAPI_SPEC
    FastMCPOpenAPI, \* core/server.py: FastMCPOpenAPI, None when the import failed
    nextId,     \* the number of proxy instances built so far
    lastGet,    \* the record of the most recent get_*_instance or run call
    cfgIn,      \* the command line, environment and configuration file given
    cfgOut,     \* what load_runtime_config made of them
    authIn,     \* the AuthConfig create_auth_strategy is given
    strategy,   \* what create_auth_strategy made of it
    document,   \* the specification document create_http_client is given
    client      \* what create_http_client made of the RuntimeConfig and it

loaderVars == <<variant, fname, fs, remote, cache, last, okDocs, labels, texts, ios>>

serverVars == <<registry, pinned, mcp, envSpec, FastMCPOpenAPI, nextId, lastGet>>

configVars == <<cfgIn, cfgOut, authIn, strategy, document, client>>

vars == <<variant, fname, fs, remote, cache, last, okDocs, labels, texts, ios, tick,
          registry, pinned, mcp, envSpec, FastMCPOpenAPI, nextId, lastGet, cfgIn, cfgOut,
          authIn, strategy, document, client>>

None == "None"

\* Python's truth value of a string or None
Truthy(v) == v \notin {None, ""}

\* Python's "a or b" on strings and None
Or(a, b) == IF Truthy(a) THEN a ELSE b

(***************************************************************************)
(* Bounds.                                                                 *)
(***************************************************************************)
MaxMtime == 2

Mtimes == 1..MaxMtime

(***************************************************************************)
(* File and response contents, by what the two parsers make of them.       *)
(*   jsonA    a JSON object; YAML reads the same object                    *)
(*   yamlB    a YAML block mapping; not JSON                               *)
(*   jsonTabC a JSON object indented with tabs; YAML rejects the tabs      *)
(*   listJ    "[1]": parses in both, not a mapping                         *)
(*   plain    a bare word: a YAML scalar, not JSON                         *)
(*   broken   "openapi: [": neither                                        *)
(***************************************************************************)
Contents == {"jsonA", "yamlB", "jsonTabC", "listJ", "plain", "broken"}

Docs == {"docA", "docB", "docC"}

yaml_safe_load(content) ==
    CASE content = "jsonA" -> "docA"
      [] content = "yamlB" -> "docB"
      [] content = "listJ" -> "list"
      [] content = "plain" -> "scalar"
      [] OTHER -> "YAMLError"

json_loads(content) ==
    CASE content = "jsonA" -> "docA"
      [] content = "jsonTabC" -> "docC"
      [] content = "listJ" -> "list"
      [] OTHER -> "JSONDecodeError"

\* isinstance(data, dict)
IsDict(data) == data \in Docs

\* A parse result: the document, or the OpenAPISpecError raised.
_validate_dict(data, label) ==
    IF IsDict(data) THEN [err |-> "ok", doc |-> data]
    ELSE [err |-> "not_object_" \o label, doc |-> None]

_parse_yaml(content) ==
    LET data == yaml_safe_load(content)
    IN  IF data = "YAMLError" THEN [err |-> "bad_yaml", doc |-> None]
        ELSE _validate_dict(data, "yaml")

_parse_json(content) ==
    LET data == json_loads(content)
    IN  IF data = "JSONDecodeError" THEN [err |-> "bad_json", doc |-> None]
        ELSE _validate_dict(data, "json")

\* A fault: _parse_spec that tries YAML and then JSON whatever the extension
_parse_spec_ignores_hint(content, format_hint) ==
    LET y == _parse_yaml(content)
    IN  IF y.err = "ok" THEN y ELSE _parse_json(content)

_parse_spec(content, format_hint) ==
    IF format_hint = ".json" THEN _parse_json(content)
    ELSE IF format_hint \in {".yaml", ".yml"} THEN _parse_yaml(content)
    ELSE LET y == _parse_yaml(content)
         IN  IF y.err = "ok" THEN y ELSE _parse_json(content)

(***************************************************************************)
(* Sources.  A source string is the record urlparse/pathlib read from it:  *)
(* scheme, netloc, abs (the path starts with "/"), path (its components)   *)
(* and query.                                                              *)
(***************************************************************************)
Cwd == <<"w">>

FileNames == {"spec.yaml", "spec.json", "spec"}

OtherName == "other.yaml"

Str(scheme, netloc, abs, path, query) ==
    [scheme |-> scheme, netloc |-> netloc, abs |-> abs, path |-> path, query |-> query]

LocalLabels ==
    {"rel", "dotrel", "updown", "abs", "file", "file_localhost", "file_remote",
     "file_nopath", "ftp", "other"}

HttpLabels == {"http_yaml", "http_plain", "http_json_q", "HTTP_yaml"}

\* The source string a label stands for.
Src(label) ==
    CASE label = "rel"            -> Str("", "", FALSE, <<fname>>, "")
      [] label = "dotrel"         -> Str("", "", FALSE, <<".", fname>>, "")
      [] label = "updown"         -> Str("", "", FALSE, <<"..", "w", fname>>, "")
      [] label = "abs"            -> Str("", "", TRUE, <<"w", fname>>, "")
      [] label = "file"           -> Str("file", "", TRUE, <<"w", fname>>, "")
      [] label = "file_localhost" -> Str("file", "localhost", TRUE, <<"w", fname>>, "")
      [] label = "file_remote"    -> Str("file", "remote", TRUE, <<"w", fname>>, "")
      [] label = "file_nopath"    -> Str("file", "localhost", FALSE, <<>>, "")
      [] label = "ftp"            -> Str("ftp", "example.com", TRUE, <<"openapi.yaml">>, "")
      [] label = "other"          -> Str("", "", TRUE, <<"w", OtherName>>, "")
      [] label = "http_yaml"      -> Str("https", "example.com", TRUE, <<"openapi.yaml">>, "")
      [] label = "HTTP_yaml"      -> Str("HTTPS", "example.com", TRUE, <<"openapi.yaml">>, "")
      [] label = "http_plain"     -> Str("https", "example.com", TRUE, <<"api">>, "")
      [] label = "http_json_q"    -> Str("https", "example.com", TRUE, <<"openapi.json">>, "v=1")

\* str.lower() on the strings of the model
Lower(s) ==
    CASE s = "HTTPS" -> "https"
      [] s = "HTTP" -> "http"
      [] s = "FILE" -> "file"
      [] s = "TRUE" -> "true"
      [] s = "Off" -> "off"
      [] s = "Bearer" -> "bearer"
      [] s = "None" -> "none"
      [] s = "QUERY" -> "query"
      [] s = "OAuth2" -> "oauth2"
      [] OTHER -> s

\* pathlib's suffix of a file name
Suffix(name) ==
    CASE name \in {"spec.yaml", "other.yaml", "openapi.yaml", "cfg.yaml"} -> ".yaml"
      [] name \in {"spec.json", "spec.JSON", "openapi.json", "cfg.json"} -> ".json"
      [] name = "spec.yml" -> ".yml"
      [] name = "spec.txt" -> ".txt"
      [] OTHER -> ""

\* Path(p).suffix.lower() of a path given by its components
PathSuffix(path) == IF Len(path) = 0 THEN "" ELSE Suffix(path[Len(path)])

\* A Path: abs and its components; pathlib drops "." components on construction.
RECURSIVE DropDots(_)
DropDots(path) ==
    IF Len(path) = 0 THEN <<>>
    ELSE IF Head(path) = "." THEN DropDots(Tail(path))
    ELSE <<Head(path)>> \o DropDots(Tail(path))

Path(abs, path) == [abs |-> abs, path |-> DropDots(path)]

\* Path.resolve(): absolute against the working directory, ".." collapsed.
\* (The modelled tree holds no symbolic links.)
RECURSIVE Collapse(_, _)
Collapse(done, rest) ==
    IF Len(rest) = 0 THEN done
    ELSE IF Head(rest) = ".."
         THEN Collapse(IF Len(done) = 0 THEN done ELSE SubSeq(done, 1, Len(done) - 1),
                       Tail(rest))
         ELSE Collapse(done \o <<Head(rest)>>, Tail(rest))

Resolve(p) == [abs |-> TRUE, path |-> Collapse(<<>>, IF p.abs THEN p.path ELSE Cwd \o p.path)]

\* Path.as_uri(): "file://" + the absolute path
AsUri(p) == Str("file", "", TRUE, p.path, "")

\* str(Path)
PathStr(p) == Str("", "", p.abs, p.path, "")

\* _path_from_file_url: the Path, or the error raised
_path_from_file_url(parsed) ==
    IF parsed.netloc # "" /\ parsed.netloc \notin {"", "localhost"}
    THEN [err |-> "file_host", p |-> Path(FALSE, <<>>)]
    ELSE IF Len(parsed.path) = 0 /\ ~parsed.abs
    THEN [err |-> "file_nopath", p |-> Path(FALSE, <<>>)]
    ELSE [err |-> "ok", p |-> Path(parsed.abs, parsed.path)]

(***************************************************************************)
(* The file system the loader reads: the directory /w (the working         *)
(* directory) holds the specification file, whose state is fs, and a       *)
(* second file that never changes.                                         *)
(***************************************************************************)
Missing == [exists |-> FALSE, mtime |-> 0, content |-> None]

OtherFile == [exists |-> TRUE, mtime |-> 1, content |-> "yamlB"]

FileStates(cs) ==
    {Missing} \cup [exists : {TRUE}, mtime : Mtimes, content : cs]

\* The directory entry the operating system reaches from a Path.
RECURSIVE Walk(_, _)
Walk(node, comps) ==
    IF Len(comps) = 0 \/ node \in {"ENOENT", "ENOTDIR"} THEN node
    ELSE LET c == Head(comps)
             next ==
                 CASE node \in {"F", "G"} -> "ENOTDIR"
                   [] c = "." -> node
                   [] c = ".." -> "/"
                   [] node = "/" /\ c = "w" -> "/w"
                   [] node = "/w" /\ c = fname -> "F"
                   [] node = "/w" /\ c = OtherName -> "G"
                   [] OTHER -> "ENOENT"
         IN  Walk(next, Tail(comps))

OsLookup(p) == Walk(IF p.abs THEN "/" ELSE "/w", p.path)

\* The file behind a directory entry, as the file system holds it now.
FileAt(node, f) ==
    CASE node = "F" -> f
      [] node = "G" -> OtherFile
      [] OTHER -> Missing

\* io is what the operating system does to this call: "ok", "stat_denied" (stat
\* raises an OSError other than FileNotFoundError) or "read_fail" (read_text raises).
IoOutcomes == {"ok", "stat_denied", "read_fail"}

\* Path.stat(): the error raised, or the mtime
PathStat(p, io, f) ==
    LET file == FileAt(OsLookup(p), f)
    IN  IF io = "stat_denied" THEN [err |-> "OSError", mtime |-> 0]
        ELSE IF ~file.exists THEN [err |-> "FileNotFoundError", mtime |-> 0]
        ELSE [err |-> "ok", mtime |-> file.mtime]

\* A file content whose bytes are not UTF-8
Undecodable == "latin1"

\* Path.read_text(encoding="utf-8"): the error raised, or the content
PathReadText(p, io, f) ==
    LET file == FileAt(OsLookup(p), f)
    IN  IF io = "read_fail" \/ ~file.exists THEN [err |-> "OSError", content |-> None]
        ELSE IF file.content = Undecodable
        THEN [err |-> "UnicodeDecodeError", content |-> None]
        ELSE [err |-> "ok", content |-> file.content]

(***************************************************************************)
(* What the HTTP server answers: a 2xx response with a body ("ok"), a      *)
(* non-2xx response ("status": raise_for_status raises HTTPStatusError), a *)
(* transport failure ("error": another httpx.HTTPError), or no answer in   *)
(* time ("timeout": httpx.TimeoutException).                               *)
(***************************************************************************)
Responses(cs) ==
    {[kind |-> "timeout", content |-> None], [kind |-> "error", content |-> None],
     [kind |-> "status", content |-> None]}
        \cup [kind : {"ok"}, content : cs]

(***************************************************************************)
(* The loader.  An outcome is what one call does: res is "ok" or the       *)
(* OpenAPISpecError raised, doc the document returned, cache the cache     *)
(* after the call; stat, read and http tell which primitives were called,  *)
(* mtime is the modification time stat returned (0: none).                 *)
(***************************************************************************)
NoMtime == 0

\* A fault: a failing load that throws the cache away
RaiseAndClear(res, c, stat, read, http, mtime) ==
    [res |-> res, doc |-> None, cache |-> [k \in {} |-> None], stat |-> stat,
     read |-> read, http |-> http, mtime |-> mtime]

Raise(res, c, stat, read, http, mtime) ==
    [res |-> res, doc |-> None, cache |-> c, stat |-> stat, read |-> read,
     http |-> http, mtime |-> mtime]

Return(doc, c, stat, read, http, mtime) ==
    [res |-> "ok", doc |-> doc, cache |-> c, stat |-> stat, read |-> read,
     http |-> http, mtime |-> mtime]

\* self._cache[key] = entry
Store(c, key, entry) == [k \in DOMAIN c \cup {key} |-> IF k = key THEN entry ELSE c[k]]

_CacheEntry(spec, mtime) == [spec |-> spec, mtime |-> mtime]

\* A fault: _load_http that never looks in the cache
_load_http_uncached(key, hint, c, resp) ==
    IF resp.kind = "timeout" THEN Raise("timeout", c, FALSE, FALSE, TRUE, NoMtime)
    ELSE IF resp.kind \in {"error", "status"}
    THEN Raise("http_error", c, FALSE, FALSE, TRUE, NoMtime)
    ELSE LET parsed == _parse_spec(resp.content, hint)
         IN  IF parsed.err # "ok" THEN Raise(parsed.err, c, FALSE, FALSE, TRUE, NoMtime)
             ELSE Return(parsed.doc, Store(c, key, _CacheEntry(parsed.doc, NoMtime)),
                         FALSE, FALSE, TRUE, NoMtime)

\* A fault: _load_http that reports a timeout as any other HTTP error
_load_http_one_form(key, hint, c, resp) ==
    IF key \in DOMAIN c THEN Return(c[key].spec, c, FALSE, FALSE, FALSE, NoMtime)
    ELSE IF resp.kind # "ok" THEN Raise("http_error", c, FALSE, FALSE, TRUE, NoMtime)
    ELSE LET parsed == _parse_spec(resp.content, hint)
         IN  IF parsed.err # "ok" THEN Raise(parsed.err, c, FALSE, FALSE, TRUE, NoMtime)
             ELSE Return(parsed.doc, Store(c, key, _CacheEntry(parsed.doc, NoMtime)),
                         FALSE, FALSE, TRUE, NoMtime)

\* _load_http of both loaders; hint is the format hint each derives from the URL.
_load_http(key, hint, c, resp) ==
    IF key \in DOMAIN c THEN Return(c[key].spec, c, FALSE, FALSE, FALSE, NoMtime)
    ELSE IF resp.kind = "timeout" THEN Raise("timeout", c, FALSE, FALSE, TRUE, NoMtime)
    ELSE IF resp.kind \in {"error", "status"}
    THEN Raise("http_error", c, FALSE, FALSE, TRUE, NoMtime)
    ELSE LET parsed == _parse_spec(resp.content, hint)
         IN  IF parsed.err # "ok" THEN Raise(parsed.err, c, FALSE, FALSE, TRUE, NoMtime)
             ELSE Return(parsed.doc, Store(c, key, _CacheEntry(parsed.doc, NoMtime)),
                         FALSE, FALSE, TRUE, NoMtime)

\* A fault: _load_path that reads the file on every call
_load_path_rereads(p, key, c, io, f, g) ==
    LET st == PathStat(p, io, f)
    IN  IF st.err = "FileNotFoundError" THEN Raise("not_exist", c, TRUE, FALSE, FALSE, NoMtime)
        ELSE IF st.err = "OSError" THEN Raise("no_access", c, TRUE, FALSE, FALSE, NoMtime)
        ELSE LET rd == PathReadText(p, io, g)
             IN  IF rd.err = "OSError" THEN Raise("read_fail", c, TRUE, TRUE, FALSE, st.mtime)
                 ELSE IF rd.err # "ok" THEN Raise(rd.err, c, TRUE, TRUE, FALSE, st.mtime)
                 ELSE LET parsed == _parse_spec(rd.content, PathSuffix(p.path))
                      IN  IF parsed.err # "ok"
                          THEN Raise(parsed.err, c, TRUE, TRUE, FALSE, st.mtime)
                          ELSE Return(parsed.doc,
                                      Store(c, key, _CacheEntry(parsed.doc, st.mtime)),
                                      TRUE, TRUE, FALSE, st.mtime)

\* A fault: _load_path that returns a cached entry without comparing mtimes
_load_path_ignores_mtime(p, key, c, io, f, g) ==
    LET st == PathStat(p, io, f)
    IN  IF st.err = "FileNotFoundError" THEN Raise("not_exist", c, TRUE, FALSE, FALSE, NoMtime)
        ELSE IF st.err = "OSError" THEN Raise("no_access", c, TRUE, FALSE, FALSE, NoMtime)
        ELSE IF key \in DOMAIN c
        THEN Return(c[key].spec, c, TRUE, FALSE, FALSE, st.mtime)
        ELSE LET rd == PathReadText(p, io, g)
             IN  IF rd.err = "OSError" THEN Raise("read_fail", c, TRUE, TRUE, FALSE, st.mtime)
                 ELSE IF rd.err # "ok" THEN Raise(rd.err, c, TRUE, TRUE, FALSE, st.mtime)
                 ELSE LET parsed == _parse_spec(rd.content, PathSuffix(p.path))
                      IN  IF parsed.err # "ok"
                          THEN Raise(parsed.err, c, TRUE, TRUE, FALSE, st.mtime)
                          ELSE Return(parsed.doc,
                                      Store(c, key, _CacheEntry(parsed.doc, st.mtime)),
                                      TRUE, TRUE, FALSE, st.mtime)

\* A fault: _load_path that returns a cached document without a stat, as
\* _load_http does
_load_path_cached_first(p, key, c, io, f, g) ==
    IF key \in DOMAIN c THEN Return(c[key].spec, c, FALSE, FALSE, FALSE, NoMtime)
    ELSE LET st == PathStat(p, io, f)
         IN  IF st.err = "FileNotFoundError"
             THEN Raise("not_exist", c, TRUE, FALSE, FALSE, NoMtime)
             ELSE IF st.err = "OSError"
             THEN Raise("no_access", c, TRUE, FALSE, FALSE, NoMtime)
             ELSE LET rd == PathReadText(p, io, g)
                      parsed == _parse_spec(rd.content, PathSuffix(p.path))
                  IN  IF rd.err = "OSError"
                      THEN Raise("read_fail", c, TRUE, TRUE, FALSE, st.mtime)
                      ELSE IF rd.err # "ok"
                      THEN Raise(rd.err, c, TRUE, TRUE, FALSE, st.mtime)
                      ELSE IF parsed.err # "ok"
                      THEN Raise(parsed.err, c, TRUE, TRUE, FALSE, st.mtime)
                      ELSE Return(parsed.doc,
                                  Store(c, key, _CacheEntry(parsed.doc, st.mtime)),
                                  TRUE, TRUE, FALSE, st.mtime)

\* _load_path of both loaders.  path.stat() finds the file as f and
\* path.read_text(), a later system call, finds it as g: the entry stored
\* holds the document of what was read and the mtime stat returned.
_load_path(p, key, c, io, f, g) ==
    LET st == PathStat(p, io, f)
    IN  IF st.err = "FileNotFoundError" THEN Raise("not_exist", c, TRUE, FALSE, FALSE, NoMtime)
        ELSE IF st.err = "OSError" THEN Raise("no_access", c, TRUE, FALSE, FALSE, NoMtime)
        ELSE IF key \in DOMAIN c /\ c[key].mtime = st.mtime
        THEN Return(c[key].spec, c, TRUE, FALSE, FALSE, st.mtime)
        ELSE LET rd == PathReadText(p, io, g)
             IN  IF rd.err = "OSError" THEN Raise("read_fail", c, TRUE, TRUE, FALSE, st.mtime)
                 ELSE IF rd.err # "ok" THEN Raise(rd.err, c, TRUE, TRUE, FALSE, st.mtime)
                 ELSE LET parsed == _parse_spec(rd.content, PathSuffix(p.path))
                      IN  IF parsed.err # "ok"
                          THEN Raise(parsed.err, c, TRUE, TRUE, FALSE, st.mtime)
                          ELSE Return(parsed.doc,
                                      Store(c, key, _CacheEntry(parsed.doc, st.mtime)),
                                      TRUE, TRUE, FALSE, st.mtime)

\* core/spec.py: OpenAPISpecLoader._normalize_key; err is the error it raises
_normalize_key(source) ==
    LET scheme == Lower(source.scheme)
    IN  IF scheme \in {"http", "https"} THEN [err |-> "ok", key |-> source]
        ELSE IF scheme = "file"
        THEN LET pf == _path_from_file_url(source)
             IN  IF pf.err # "ok" THEN [err |-> pf.err, key |-> source]
                 ELSE [err |-> "ok", key |-> AsUri(Resolve(pf.p))]
        ELSE IF scheme = ""
        THEN [err |-> "ok", key |-> AsUri(Resolve(Path(source.abs, source.path)))]
        ELSE [err |-> "ok", key |-> source]

\* Path(source).suffix.lower() of a URL string: the text after the last dot of
\* its last component, the query included.
UrlStringSuffix(source) ==
    IF source.query = "" THEN PathSuffix(source.path)
    ELSE PathSuffix(source.path) \o "?" \o source.query

\* core/spec.py: OpenAPISpecLoader.load
CoreLoad(source, c, io, f, g, resp) ==
    LET nk == _normalize_key(source)
        scheme == Lower(source.scheme)
    IN  IF nk.err # "ok" THEN Raise(nk.err, c, FALSE, FALSE, FALSE, NoMtime)
        ELSE IF scheme \in {"http", "https"}
        THEN _load_http(nk.key, UrlStringSuffix(source), c, resp)
        ELSE IF scheme = "file"
        THEN _load_path(_path_from_file_url(source).p, nk.key, c, io, f, g)
        ELSE IF scheme = ""
        THEN _load_path(Path(source.abs, source.path), nk.key, c, io, f, g)
        ELSE Raise("unsupported", c, FALSE, FALSE, FALSE, NoMtime)

\* mcp_cnb_knowledge/spec_loader.py: the cache key load passes on
CnbKey(source) ==
    LET scheme == Lower(source.scheme)
    IN  IF scheme = "" THEN PathStr(Resolve(Path(source.abs, source.path)))
        ELSE source

\* mcp_cnb_knowledge/spec_loader.py: OpenAPISpecLoader.load
CnbLoad(source, c, io, f, g, resp) ==
    LET scheme == Lower(source.scheme)
    IN  IF scheme \in {"http", "https"}
        THEN _load_http(source, PathSuffix(source.path), c, resp)
        ELSE IF scheme = "file"
        THEN LET pf == _path_from_file_url(source)
             IN  IF pf.err # "ok" THEN Raise(pf.err, c, FALSE, FALSE, FALSE, NoMtime)
                 ELSE _load_path(pf.p, CnbKey(source), c, io, f, g)
        ELSE IF scheme = ""
        THEN _load_path(Path(source.abs, source.path), CnbKey(source), c, io, f, g)
        ELSE Raise("unsupported", c, FALSE, FALSE, FALSE, NoMtime)

\* The cache key a loader gives a source.
KeyOf(v, source) == IF v = "core" THEN _normalize_key(source).key ELSE CnbKey(source)

\* f is the file as path.stat() finds it, g as path.read_text() finds it
LoadOutcome(v, source, c, io, f, g, resp) ==
    IF v = "core" THEN CoreLoad(source, c, io, f, g, resp)
    ELSE CnbLoad(source, c, io, f, g, resp)

(***************************************************************************)
(* The local file a source string denotes: the directory entry the         *)
(* operating system opens for it, "none" when the loader accepts no such   *)
(* source or it names no file.                                             *)
(***************************************************************************)
Denotes(source) ==
    LET scheme == Lower(source.scheme)
        node ==
            IF scheme = "" THEN OsLookup(Path(source.abs, source.path))
            ELSE IF scheme = "file" /\ _path_from_file_url(source).err = "ok"
            THEN OsLookup(_path_from_file_url(source).p)
            ELSE "none"
    IN  IF node \in {"F", "G"} THEN node ELSE "none"

(***************************************************************************)
(* Runtime configuration (core/config.py).  A dict is a function from its  *)
(* keys.  A header string is the sequence of its pieces: words, the        *)
(* separators "=" and ":", and blanks " ".  An environment value that      *)
(* holds a comma-separated list is the sequence of the texts between its   *)
(* commas, each a header string; the empty string is one empty text.       *)
(***************************************************************************)
DEFAULT_SERVER_NAME == "OpenAPI MCP Proxy"

OPENAPI_SPEC_ENV_VAR == "MCP_OPENAPI_SPEC"

ENV_PREFIX == "MCP_PROXY_"

EmptyDict == [k \in {} |-> None]

\* dict.get(k)
Get(d, k) == IF k \in DOMAIN d THEN d[k] ELSE None

\* dict.update(e), as a new dict
Update(d, e) == [k \in DOMAIN d \cup DOMAIN e |-> IF k \in DOMAIN e THEN e[k] ELSE d[k]]

\* d[k] = v, as a new dict
Put(d, k, v) == [j \in DOMAIN d \cup {k} |-> IF j = k THEN v ELSE d[j]]

\* "".join(pieces)
RECURSIVE Join(_)
Join(s) == IF Len(s) = 0 THEN "" ELSE Head(s) \o Join(Tail(s))

RECURSIVE LStrip(_)
LStrip(s) == IF Len(s) > 0 /\ Head(s) = " " THEN LStrip(Tail(s)) ELSE s

RECURSIVE RStrip(_)
RStrip(s) == IF Len(s) > 0 /\ s[Len(s)] = " " THEN RStrip(SubSeq(s, 1, Len(s) - 1)) ELSE s

\* str.strip() on a sequence of pieces
Strip(s) == RStrip(LStrip(s))

\* sep in raw
Has(raw, sep) == \E i \in 1..Len(raw) : raw[i] = sep

\* raw.split(sep, 1)
Split1(raw, sep) ==
    LET i == CHOOSE n \in 1..Len(raw) : raw[n] = sep /\ \A j \in 1..(n - 1) : raw[j] # sep
    IN  <<SubSeq(raw, 1, i - 1), SubSeq(raw, i + 1, Len(raw))>>

_parse_key_value(raw) ==
    IF Has(raw, "=")
    THEN LET kv == Split1(raw, "=")
         IN  [err |-> "ok", key |-> Join(Strip(kv[1])), value |-> Join(Strip(kv[2]))]
    ELSE IF Has(raw, ":")
    THEN LET kv == Split1(raw, ":")
         IN  [err |-> "ok", key |-> Join(Strip(kv[1])), value |-> Join(Strip(kv[2]))]
    ELSE [err |-> "ConfigError_header", key |-> None, value |-> None]

RECURSIVE _split_key_value_list(_)
_split_key_value_list(raw) ==
    IF Len(raw) = 0 THEN <<>>
    ELSE LET item == Strip(Head(raw))
         IN  (IF Len(item) > 0 THEN <<item>> ELSE <<>>) \o _split_key_value_list(Tail(raw))

\* value.strip() on the strings the environment is given
StrStrip(value) ==
    CASE value = " true " -> "true"
      [] value = " http://pe " -> "http://pe"
      [] OTHER -> value

_parse_bool(value) ==
    LET normalized == Lower(StrStrip(value))
    IN  IF normalized \in {"1", "true", "yes", "on"} THEN "True"
        ELSE IF normalized \in {"0", "false", "no", "off"} THEN "False"
        ELSE "ConfigError_bool"

\* The dict json.loads reads from '{"all://": "http://pe"}', by its repr.
ProxyMapping == "{'all://': 'http://pe'}"

_parse_proxy_value(value) ==
    LET v == StrStrip(value)
    IN  CASE v = "{\"all://\": \"http://pe\"}" -> ProxyMapping
          [] v = "{oops" -> "JSONDecodeError"
          [] OTHER -> v

\* float(value) of a number or a numeric string
float(value) ==
    CASE value \in {"1", "1.0"} -> "1.0"
      [] value \in {"2", "2.0"} -> "2.0"
      [] value \in {"3", "3.0"} -> "3.0"
      [] value \in {"30", "30.0"} -> "30.0"
      [] value = "2.5" -> "2.5"
      [] OTHER -> "ValueError"

\* int(value) of an integer or a string
int(value) ==
    IF value \in {"0", "1", "2", "3"} THEN value ELSE "ValueError"

(***************************************************************************)
(* The three layers.  argv is the command line by flag: a function from    *)
(* the dest of each flag given to its text, to the list of its texts for   *)
(* the repeatable --header and --auth-header, and to the flag itself for   *)
(* --verify-ssl / --no-verify-ssl.  env is the environment.  file is the   *)
(* configuration file on disk: its name, its content by what the parsers   *)
(* make of it, and the mapping it holds when it parses to one.             *)
(***************************************************************************)
CliAttrs ==
    {"openapi_spec", "server_name", "base_url", "timeout", "verify_ssl", "retries",
     "proxies", "auth_type", "auth_token", "auth_username", "auth_password",
     "auth_key_name", "auth_key_value", "auth_key_location"}

ListAttrs == {"headers", "auth_headers"}

\* build_arg_parser and parser.parse_known_args(argv): the namespace, or the
\* SystemExit of argparse's error
parse_known_args(argv) ==
    IF "timeout" \in DOMAIN argv /\ float(argv["timeout"]) = "ValueError"
    THEN [err |-> "SystemExit", args |-> EmptyDict]
    ELSE IF "retries" \in DOMAIN argv /\ int(argv["retries"]) = "ValueError"
    THEN [err |-> "SystemExit", args |-> EmptyDict]
    ELSE IF "auth_key_location" \in DOMAIN argv
            /\ argv["auth_key_location"] \notin {"header", "query", "cookie"}
    THEN [err |-> "SystemExit", args |-> EmptyDict]
    ELSE [err |-> "ok",
          args |-> [a \in CliAttrs \cup ListAttrs \cup {"config_file"} |->
                      IF a \in ListAttrs
                      THEN IF a \in DOMAIN argv THEN argv[a] ELSE <<>>
                      ELSE IF a = "verify_ssl"
                      THEN IF a \in DOMAIN argv /\ argv[a] = "--verify-ssl"
                           THEN "True" ELSE "False"
                      ELSE IF a \notin DOMAIN argv THEN None
                      ELSE IF a = "timeout" THEN float(argv[a])
                      ELSE IF a = "retries" THEN int(argv[a])
                      ELSE argv[a]]]

NoFile == [exists |-> FALSE, name |-> None, content |-> None, data |-> EmptyDict]

_load_config_file(path, file) ==
    IF ~(file.exists /\ file.name = path)
    THEN [err |-> "ConfigError_missing_file", data |-> EmptyDict]
    ELSE LET suffix == Lower(Suffix(path))
             data == IF suffix \in {".yaml", ".yml"} THEN yaml_safe_load(file.content)
                     ELSE IF suffix = ".json" THEN json_loads(file.content)
                     ELSE IF yaml_safe_load(file.content) # "YAMLError"
                     THEN yaml_safe_load(file.content)
                     ELSE json_loads(file.content)
         IN  IF data \in {"YAMLError", "JSONDecodeError"}
             THEN [err |-> data, data |-> EmptyDict]
             ELSE IF ~IsDict(data)
             THEN [err |-> "ConfigError_not_mapping", data |-> EmptyDict]
             ELSE [err |-> "ok", data |-> file.data]

\* env.get(name)
EnvGet(env, name) == IF name \in DOMAIN env THEN env[name] ELSE None

\* The variable of each key, after ENV_PREFIX
EnvName(k) ==
    CASE k = "openapi_spec" -> "SPEC"
      [] k = "server_name" -> "SERVER_NAME"
      [] k = "base_url" -> "BASE_URL"
      [] k = "timeout" -> "TIMEOUT"
      [] k = "retries" -> "RETRIES"
      [] k = "verify_ssl" -> "VERIFY_SSL"
      [] k = "proxies" -> "PROXIES"
      [] k = "headers" -> "HEADERS"
      [] k = "auth_type" -> "AUTH_TYPE"
      [] k = "auth_token" -> "AUTH_TOKEN"
      [] k = "auth_username" -> "AUTH_USERNAME"
      [] k = "auth_password" -> "AUTH_PASSWORD"
      [] k = "auth_headers" -> "AUTH_HEADERS"
      [] k = "auth_key_name" -> "AUTH_KEY_NAME"
      [] k = "auth_key_value" -> "AUTH_KEY_VALUE"
      [] k = "auth_key_location" -> "AUTH_KEY_LOCATION"

\* The truth value of an environment value that holds a list
ListTruthy(env, name) == name \in DOMAIN env /\ env[name] # << <<>> >>

\* What _extract_env_config reads for key k, and whether it reads anything
EnvRaw(env, k) ==
    IF k = "openapi_spec"
    THEN Or(EnvGet(env, ENV_PREFIX \o "SPEC"), EnvGet(env, OPENAPI_SPEC_ENV_VAR))
    ELSE EnvGet(env, ENV_PREFIX \o EnvName(k))

EnvHas(env, k) ==
    IF k \in ListAttrs THEN ListTruthy(env, ENV_PREFIX \o EnvName(k))
    ELSE Truthy(EnvRaw(env, k))

EnvValue(env, k) ==
    CASE k \in ListAttrs -> _split_key_value_list(env[ENV_PREFIX \o EnvName(k)])
      [] k = "timeout" -> float(EnvRaw(env, k))
      [] k = "retries" -> int(EnvRaw(env, k))
      [] k = "verify_ssl" -> _parse_bool(EnvRaw(env, k))
      [] k = "proxies" -> _parse_proxy_value(EnvRaw(env, k))
      [] OTHER -> EnvRaw(env, k)

\* The conversions of _extract_env_config in the order the code makes them;
\* the first that fails raises.
EnvConverted == <<"timeout", "retries", "verify_ssl", "proxies">>

Failure(v) == v \in {"ValueError", "ConfigError_bool", "JSONDecodeError"}

_extract_env_config(env) ==
    LET bad == {i \in 1..Len(EnvConverted) :
                   EnvHas(env, EnvConverted[i]) /\ Failure(EnvValue(env, EnvConverted[i]))}
        first == CHOOSE i \in bad : \A j \in bad : i <= j
    IN  IF bad # {}
        THEN [err |-> EnvValue(env, EnvConverted[first]), data |-> EmptyDict]
        ELSE [err |-> "ok",
              data |-> [k \in {a \in CliAttrs \cup ListAttrs : EnvHas(env, a)} |->
                          EnvValue(env, k)]]

_extract_cli_config(args) ==
    [k \in {a \in CliAttrs : args[a] # None} \cup {a \in ListAttrs : Len(args[a]) > 0} |->
        args[k]]

\* A fault: _resolve_openapi_source that returns no source instead of raising
_resolve_openapi_source_silent(merged, env) ==
    IF Truthy(Get(merged, "openapi_spec"))
    THEN [err |-> "ok", source |-> merged["openapi_spec"]]
    ELSE [err |-> "ok", source |-> EnvGet(env, OPENAPI_SPEC_ENV_VAR)]

_resolve_openapi_source(merged, env) ==
    IF Truthy(Get(merged, "openapi_spec"))
    THEN [err |-> "ok", source |-> merged["openapi_spec"]]
    ELSE IF Truthy(EnvGet(env, OPENAPI_SPEC_ENV_VAR))
    THEN [err |-> "ok", source |-> env[OPENAPI_SPEC_ENV_VAR]]
    ELSE [err |-> "ConfigError_no_source", source |-> None]

\* source.get(name) of a list-valued key, [] when it is absent
ListOf(source, name) == IF name \in DOMAIN source THEN source[name] ELSE <<>>

\* for raw in headers: merged[key] = value
RECURSIVE MergeList(_, _)
MergeList(merged, headers) ==
    IF Len(headers) = 0 THEN [err |-> "ok", headers |-> merged]
    ELSE LET kv == _parse_key_value(Head(headers))
         IN  IF kv.err # "ok" THEN [err |-> kv.err, headers |-> merged]
             ELSE MergeList(Put(merged, kv.key, kv.value), Tail(headers))

RECURSIVE MergeSources(_, _)
MergeSources(merged, sources) ==
    IF Len(sources) = 0 THEN [err |-> "ok", headers |-> merged]
    ELSE LET m == MergeList(merged, ListOf(Head(sources), "headers"))
         IN  IF m.err # "ok" THEN m ELSE MergeSources(m.headers, Tail(sources))

\* A fault: _merge_headers that takes the headers of the highest layer that
\* has any, instead of merging the layers key by key
_merge_headers_wholesale(sources) ==
    LET having == {i \in 1..Len(sources) : Len(ListOf(sources[i], "headers")) > 0}
        top == CHOOSE i \in having : \A j \in having : j <= i
    IN  IF having = {} THEN [err |-> "ok", headers |-> EmptyDict]
        ELSE MergeList(EmptyDict, ListOf(sources[top], "headers"))

_merge_headers(sources) == MergeSources(EmptyDict, sources)

\* AuthConfig(scheme=scheme)
AuthConfig(scheme) ==
    [scheme |-> scheme, token |-> None, username |-> None, password |-> None,
     header_name |-> None, header_value |-> None, api_key_name |-> None,
     api_key_value |-> None, api_key_location |-> "header", extra_headers |-> EmptyDict]

\* The loop of the header scheme: the first pair names the header, a later
\* one is stored in extra_headers.
RECURSIVE HeaderLoop(_, _)
HeaderLoop(config, headers) ==
    IF Len(headers) = 0 THEN [err |-> "ok", config |-> config]
    ELSE LET kv == _parse_key_value(Head(headers))
         IN  IF kv.err # "ok" THEN [err |-> kv.err, config |-> config]
             ELSE IF config.header_name = None
             THEN HeaderLoop([config EXCEPT !.header_name = kv.key,
                                            !.header_value = kv.value], Tail(headers))
             ELSE HeaderLoop([config EXCEPT !.extra_headers = Put(@, kv.key, kv.value)],
                             Tail(headers))

\* The closing loop of every scheme: config.extra_headers.setdefault(key, value)
RECURSIVE ExtraLoop(_, _)
ExtraLoop(config, headers) ==
    IF Len(headers) = 0 THEN [err |-> "ok", config |-> config]
    ELSE LET kv == _parse_key_value(Head(headers))
         IN  IF kv.err # "ok" THEN [err |-> kv.err, config |-> config]
             ELSE IF kv.key \in DOMAIN config.extra_headers
             THEN ExtraLoop(config, Tail(headers))
             ELSE ExtraLoop([config EXCEPT !.extra_headers = Put(@, kv.key, kv.value)],
                            Tail(headers))

\* A fault: _build_auth_config that checks no scheme's required fields
_build_auth_config_unchecked(data) ==
    LET scheme == Lower(IF "auth_type" \in DOMAIN data THEN data["auth_type"] ELSE "none")
    IN  [err |-> "ok",
         config |-> [AuthConfig(IF scheme = "" THEN "none" ELSE scheme) EXCEPT
                        !.token = Get(data, "auth_token"),
                        !.username = Get(data, "auth_username"),
                        !.password = Get(data, "auth_password"),
                        !.api_key_value = Get(data, "auth_key_value"),
                        !.api_key_name = Get(data, "auth_key_name"),
                        !.api_key_location = Get(data, "auth_key_location")]]

\* A fault: _build_auth_config that accepts any API key location
_build_auth_config_any_location(data) ==
    LET scheme == Lower(IF "auth_type" \in DOMAIN data THEN data["auth_type"] ELSE "none")
        config == AuthConfig(scheme)
        headers == ListOf(data, "auth_headers")
        location == Or(Get(data, "auth_key_location"), "header")
        byScheme ==
            CASE scheme = "bearer" ->
                   IF ~Truthy(Get(data, "auth_token"))
                   THEN [err |-> "ConfigError_bearer", config |-> config]
                   ELSE [err |-> "ok", config |-> [config EXCEPT !.token = data["auth_token"]]]
              [] scheme = "basic" ->
                   IF Get(data, "auth_username") = None \/ Get(data, "auth_password") = None
                   THEN [err |-> "ConfigError_basic", config |-> config]
                   ELSE [err |-> "ok",
                         config |-> [config EXCEPT !.username = data["auth_username"],
                                                   !.password = data["auth_password"]]]
              [] scheme = "header" ->
                   IF Len(headers) = 0
                   THEN [err |-> "ConfigError_auth_header", config |-> config]
                   ELSE HeaderLoop(config, headers)
              [] scheme = "api-key" ->
                   IF Get(data, "auth_key_value") = None
                   THEN [err |-> "ConfigError_api_key", config |-> config]
                   ELSE [err |-> "ok",
                         config |-> [config EXCEPT
                                        !.api_key_value = data["auth_key_value"],
                                        !.api_key_name =
                                            Or(Get(data, "auth_key_name"), "X-API-Key"),
                                        !.api_key_location = location]]
              [] OTHER ->
                   [err |-> "ok",
                    config |-> [config EXCEPT
                                   !.scheme = IF scheme \in {"", "none"} THEN "none"
                                              ELSE scheme]]
    IN  IF byScheme.err # "ok" THEN byScheme ELSE ExtraLoop(byScheme.config, headers)

_build_auth_config(data) ==
    LET scheme == Lower(IF "auth_type" \in DOMAIN data THEN data["auth_type"] ELSE "none")
        config == AuthConfig(scheme)
        headers == ListOf(data, "auth_headers")
        location == Or(Get(data, "auth_key_location"), "header")
        byScheme ==
            CASE scheme = "bearer" ->
                   IF ~Truthy(Get(data, "auth_token"))
                   THEN [err |-> "ConfigError_bearer", config |-> config]
                   ELSE [err |-> "ok", config |-> [config EXCEPT !.token = data["auth_token"]]]
              [] scheme = "basic" ->
                   IF Get(data, "auth_username") = None \/ Get(data, "auth_password") = None
                   THEN [err |-> "ConfigError_basic", config |-> config]
                   ELSE [err |-> "ok",
                         config |-> [config EXCEPT !.username = data["auth_username"],
                                                   !.password = data["auth_password"]]]
              [] scheme = "header" ->
                   IF Len(headers) = 0
                   THEN [err |-> "ConfigError_auth_header", config |-> config]
                   ELSE HeaderLoop(config, headers)
              [] scheme = "api-key" ->
                   IF Get(data, "auth_key_value") = None
                   THEN [err |-> "ConfigError_api_key", config |-> config]
                   ELSE IF location \notin {"header", "query", "cookie"}
                   THEN [err |-> "ConfigError_location", config |-> config]
                   ELSE [err |-> "ok",
                         config |-> [config EXCEPT
                                        !.api_key_value = data["auth_key_value"],
                                        !.api_key_name =
                                            Or(Get(data, "auth_key_name"), "X-API-Key"),
                                        !.api_key_location = location]]
              [] OTHER ->
                   [err |-> "ok",
                    config |-> [config EXCEPT
                                   !.scheme = IF scheme \in {"", "none"} THEN "none"
                                              ELSE scheme]]
    IN  IF byScheme.err # "ok" THEN byScheme ELSE ExtraLoop(byScheme.config, headers)

\* ClientConfig()
ClientConfig == [timeout |-> "30.0", verify_ssl |-> "True", retries |-> "0", proxies |-> None]

_build_client_config(data) ==
    LET timeout == IF Get(data, "timeout") # None THEN float(data["timeout"])
                   ELSE ClientConfig.timeout
        retries == IF Get(data, "retries") # None THEN int(data["retries"])
                   ELSE ClientConfig.retries
    IN  IF timeout = "ValueError" \/ retries = "ValueError"
        THEN [err |-> "ValueError", client |-> ClientConfig]
        ELSE [err |-> "ok",
              client |-> [timeout |-> timeout,
                          verify_ssl |-> IF Get(data, "verify_ssl") # None
                                         THEN data["verify_ssl"]
                                         ELSE ClientConfig.verify_ssl,
                          retries |-> retries,
                          proxies |-> Get(data, "proxies")]]

\* No RuntimeConfig: what a call that raises leaves its caller with.
NoConfig ==
    [openapi_source |-> None, server_name |-> None, base_url |-> None,
     headers |-> EmptyDict, auth |-> AuthConfig(None), client |-> ClientConfig,
     raw_sources |-> EmptyDict]

Raised(err) == [res |-> err, config |-> NoConfig]

\* load_runtime_config(argv, env), the configuration file as the disk holds it
load_runtime_config(argv, env, file) ==
    LET parsed == parse_known_args(argv)
        args == parsed.args
        config_path == Or(args["config_file"], EnvGet(env, ENV_PREFIX \o "CONFIG"))
        loaded == IF Truthy(config_path) THEN _load_config_file(config_path, file)
                  ELSE [err |-> "ok", data |-> EmptyDict]
        config_data == loaded.data
        extracted == _extract_env_config(env)
        env_data == extracted.data
        cli_data == _extract_cli_config(args)
        merged == Update(Update(config_data, env_data), cli_data)
        openapi_source == _resolve_openapi_source(merged, env)
        headers == _merge_headers(<<config_data, env_data, cli_data>>)
        auth == _build_auth_config(merged)
        client_cfg == _build_client_config(merged)
    IN  IF parsed.err # "ok" THEN Raised(parsed.err)
        ELSE IF loaded.err # "ok" THEN Raised(loaded.err)
        ELSE IF extracted.err # "ok" THEN Raised(extracted.err)
        ELSE IF openapi_source.err # "ok" THEN Raised(openapi_source.err)
        ELSE IF headers.err # "ok" THEN Raised(headers.err)
        ELSE IF auth.err # "ok" THEN Raised(auth.err)
        ELSE IF client_cfg.err # "ok" THEN Raised(client_cfg.err)
        ELSE [res |-> "ok",
              config |-> [openapi_source |-> openapi_source.source,
                          server_name |-> IF "server_name" \in DOMAIN merged
                                          THEN merged["server_name"]
                                          ELSE DEFAULT_SERVER_NAME,
                          base_url |-> Get(merged, "base_url"),
                          headers |-> headers.headers,
                          auth |-> auth.config,
                          client |-> client_cfg.client,
                          raw_sources |-> [file |-> config_data, env |-> env_data,
                                           cli |-> cli_data]]]

\* What the message of an error names as a way to supply the source
Names(res) ==
    IF res = "ConfigError_no_source"
    THEN {"--openapi-spec", ENV_PREFIX \o "SPEC", OPENAPI_SPEC_ENV_VAR, "configuration file"}
    ELSE {}

(***************************************************************************)
(* core/auth.py.  A strategy is the four views of _BaseAuthStrategy; res   *)
(* is "ok" or the ValueError raised, names the scheme the message of the   *)
(* error names.  The auth handler httpx.BasicAuth(u, p) is the text        *)
(* "BasicAuth:u:p".                                                        *)
(***************************************************************************)
_BaseAuthStrategy ==
    [res |-> "ok", names |-> None, headers |-> EmptyDict, auth |-> None,
     query_params |-> EmptyDict, cookies |-> EmptyDict]

BasicAuth(username, password) == "BasicAuth:" \o username \o ":" \o password

\* raise ValueError(...): no strategy is returned
Refused(err, named) == [_BaseAuthStrategy EXCEPT !.res = err, !.names = named]

\* A fault: create_auth_strategy that takes an unknown scheme for none
create_auth_strategy_permissive(config) ==
    [_BaseAuthStrategy EXCEPT !.headers = config.extra_headers]

\* A fault: create_auth_strategy whose bearer header carries the bare token
create_auth_strategy_bare_token(config) ==
    IF ~Truthy(config.token) THEN Refused("ValueError_bearer", None)
    ELSE [_BaseAuthStrategy EXCEPT
             !.headers = Update(("Authorization" :> config.token), config.extra_headers)]

\* A fault: create_auth_strategy that sends basic credentials as a header
create_auth_strategy_basic_header(config) ==
    IF config.username = None \/ config.password = None
    THEN Refused("ValueError_basic", None)
    ELSE [_BaseAuthStrategy EXCEPT
             !.headers = Update(("Authorization" :> BasicAuth(config.username,
                                                               config.password)),
                                config.extra_headers)]

\* A fault: create_auth_strategy that puts every API key into the headers
create_auth_strategy_header_only(config) ==
    IF config.api_key_value = None THEN Refused("ValueError_api_key", None)
    ELSE [_BaseAuthStrategy EXCEPT
             !.headers = Update((Or(config.api_key_name, "X-API-Key")
                                    :> config.api_key_value),
                                config.extra_headers)]

\* A fault: create_auth_strategy that lays the bearer header over extra_headers
create_auth_strategy_scheme_wins(config) ==
    IF ~Truthy(config.token) THEN Refused("ValueError_bearer", None)
    ELSE [_BaseAuthStrategy EXCEPT
             !.headers = Update(config.extra_headers,
                                ("Authorization" :> "Bearer " \o config.token))]

create_auth_strategy(config) ==
    LET scheme == Lower(Or(config.scheme, "none"))
        fresh == _BaseAuthStrategy
        key_name == Or(config.api_key_name, "X-API-Key")
        location == Lower(Or(config.api_key_location, "header"))
        byScheme ==
            CASE scheme = "none" -> fresh
              [] scheme = "bearer" ->
                   IF ~Truthy(config.token) THEN Refused("ValueError_bearer", None)
                   ELSE [fresh EXCEPT
                            !.headers = Put(@, "Authorization", "Bearer " \o config.token)]
              [] scheme = "basic" ->
                   IF config.username = None \/ config.password = None
                   THEN Refused("ValueError_basic", None)
                   ELSE [fresh EXCEPT
                            !.auth = BasicAuth(config.username, config.password)]
              [] scheme = "header" ->
                   IF config.header_name = None \/ config.header_value = None
                   THEN Refused("ValueError_header", None)
                   ELSE [fresh EXCEPT
                            !.headers = Put(@, config.header_name, config.header_value)]
              [] scheme = "api-key" ->
                   IF config.api_key_value = None THEN Refused("ValueError_api_key", None)
                   ELSE IF location = "header"
                   THEN [fresh EXCEPT !.headers = Put(@, key_name, config.api_key_value)]
                   ELSE IF location = "query"
                   THEN [fresh EXCEPT
                            !.query_params = Put(@, key_name, config.api_key_value)]
                   ELSE IF location = "cookie"
                   THEN [fresh EXCEPT !.cookies = Put(@, key_name, config.api_key_value)]
                   ELSE Refused("ValueError_location", None)
              [] OTHER -> Refused("ValueError_scheme", config.scheme)
    IN  IF byScheme.res # "ok" THEN byScheme
        ELSE [byScheme EXCEPT !.headers = Update(@, config.extra_headers)]

(***************************************************************************)
(* core/client.py.  A specification document is its servers entry, if it  *)
(* has one: the list of candidates, each a mapping or not, with a string   *)
(* url or not; a url is a sequence of pieces.  The client is the keyword   *)
(* arguments httpx.AsyncClient is given: keys names the ones passed.       *)
(***************************************************************************)
RECURSIVE FirstUrl(_)
FirstUrl(servers) ==
    IF Len(servers) = 0 THEN None
    ELSE LET candidate == Head(servers)
         IN  IF candidate.mapping /\ candidate.has_url
                /\ Truthy(Join(Strip(candidate.url)))
             THEN Join(Strip(candidate.url))
             ELSE FirstUrl(Tail(servers))

\* A fault: derive_base_url that looks at the first servers entry only
derive_base_url_first_entry(spec) ==
    IF ~spec.has_servers \/ Len(spec.servers) = 0 THEN None
    ELSE FirstUrl(<<Head(spec.servers)>>)

derive_base_url(spec) == IF ~spec.has_servers THEN None ELSE FirstUrl(spec.servers)

AsyncHTTPTransport(retries) == "AsyncHTTPTransport:" \o retries

NoClient ==
    [res |-> None, keys |-> {}, timeout |-> None, verify |-> None, base_url |-> None,
     headers |-> EmptyDict, params |-> EmptyDict, cookies |-> EmptyDict, auth |-> None,
     proxies |-> None, transport |-> None]

\* A fault: create_http_client that lays the static headers over the
\* strategy's
create_http_client_static_wins(config, spec) ==
    LET resolved == create_auth_strategy(config.auth)
    IN  IF resolved.res # "ok" THEN [NoClient EXCEPT !.res = resolved.res]
        ELSE [NoClient EXCEPT !.res = "ok",
                              !.headers = Update(resolved.headers, config.headers)]

create_http_client(config, spec) ==
    LET resolved == create_auth_strategy(config.auth)
        headers == Update(config.headers, resolved.headers)
        params == resolved.query_params
        cookies == resolved.cookies
        base_url == Or(config.base_url, derive_base_url(spec))
        auth == resolved.auth
        retries == config.client.retries
    IN  IF resolved.res # "ok" THEN [NoClient EXCEPT !.res = resolved.res]
        ELSE [res |-> "ok",
              keys |-> {"timeout", "verify"}
                       \cup (IF Truthy(base_url) THEN {"base_url"} ELSE {})
                       \cup (IF DOMAIN headers # {} THEN {"headers"} ELSE {})
                       \cup (IF DOMAIN params # {} THEN {"params"} ELSE {})
                       \cup (IF DOMAIN cookies # {} THEN {"cookies"} ELSE {})
                       \cup (IF auth # None THEN {"auth"} ELSE {})
                       \cup (IF config.client.proxies # None THEN {"proxies"} ELSE {})
                       \cup (IF retries \notin {None, "0"} THEN {"transport"} ELSE {}),
              timeout |-> config.client.timeout,
              verify |-> config.client.verify_ssl,
              base_url |-> IF Truthy(base_url) THEN base_url ELSE None,
              headers |-> headers,
              params |-> params,
              cookies |-> cookies,
              auth |-> auth,
              proxies |-> config.client.proxies,
              transport |-> IF retries \notin {None, "0"} THEN AsyncHTTPTransport(retries)
                            ELSE None]

(***************************************************************************)
(* The inputs of load_runtime_config that are explored.  Absent is None;   *)
(* an absent list is the empty list.                                       *)
(***************************************************************************)
ScalarKeys == CliAttrs

\* What the configuration file gives key k
FileValues(k) ==
    CASE k = "openapi_spec" -> {None, "file.yaml"}
      [] k = "server_name" -> {None, "File Server"}
      [] k = "base_url" -> {None, "https://file.example"}
      [] k = "timeout" -> {None, "1"}
      [] k = "verify_ssl" -> {None, "True", "False"}
      [] k = "retries" -> {None, "1"}
      [] k = "proxies" -> {None, "http://pf"}
      [] k = "auth_type" -> {None, "Bearer"}
      [] k = "auth_key_location" -> {None, "header"}
      [] OTHER -> {None, "file-" \o k}

\* What the environment variable of key k holds
EnvTexts(k) ==
    CASE k = "openapi_spec" -> {None, "", "env.yaml"}
      [] k = "server_name" -> {None, "Env Server"}
      [] k = "base_url" -> {None, "https://env.example"}
      [] k = "timeout" -> {None, "2", "abc"}
      [] k = "verify_ssl" -> {None, " true ", "Off", "maybe"}
      [] k = "retries" -> {None, "2", "2.5"}
      [] k = "proxies" -> {None, " http://pe ", "{\"all://\": \"http://pe\"}", "{oops"}
      [] k = "auth_type" -> {None, "basic", "digest"}
      [] k = "auth_key_location" -> {None, "query", "body"}
      [] OTHER -> {None, "env-" \o k}

\* What the flag of key k is given on the command line
CliTexts(k) ==
    CASE k = "openapi_spec" -> {None, "cli.yaml"}
      [] k = "server_name" -> {None, "Cli Server"}
      [] k = "base_url" -> {None, "", "https://cli.example"}
      [] k = "timeout" -> {None, "3", "abc"}
      [] k = "verify_ssl" -> {None, "--verify-ssl", "--no-verify-ssl"}
      [] k = "retries" -> {None, "3"}
      [] k = "proxies" -> {None, "http://pc"}
      [] k = "auth_type" -> {None, "api-key", "OAuth2"}
      [] k = "auth_key_location" -> {None, "cookie", "body"}
      [] k \in {"auth_token", "auth_username", "auth_key_name", "auth_key_value"} ->
           {None, "", "cli-" \o k}
      [] OTHER -> {None, "cli-" \o k}

\* The flags that let the value of key k show in the result
Companions(k) ==
    CASE k = "auth_type" ->
           [a \in {"auth_token", "auth_username", "auth_password", "auth_key_value"} |->
               "cli-" \o a]
      [] k = "auth_token" -> ("auth_type" :> "bearer")
      [] k = "auth_username" -> ("auth_type" :> "basic") @@ ("auth_password" :> "pw")
      [] k = "auth_password" -> ("auth_type" :> "basic") @@ ("auth_username" :> "user")
      [] k \in {"auth_key_name", "auth_key_location"} ->
           ("auth_type" :> "api-key") @@ ("auth_key_value" :> "kv")
      [] k = "auth_key_value" -> ("auth_type" :> "api-key")
      [] OTHER -> EmptyDict

\* The file contents a configuration file is given
ConfigContents == {"yamlB", "jsonA", "listJ", "broken"}

\* key -> v, or nothing when v is absent
Opt(key, v) == IF v = None THEN EmptyDict ELSE (key :> v)

\* One scalar key over the three layers; base is a --openapi-spec given beside
\* it, legacy the variable MCP_OPENAPI_SPEC.
ScalarInput(k, f, e, c, base, legacy, content) ==
    [argv |-> Opt(k, c) @@ Opt("config_file", IF f = None THEN None ELSE "cfg.yaml")
              @@ Opt("openapi_spec", base) @@ Companions(k),
     env |-> Opt(ENV_PREFIX \o EnvName(k), e) @@ Opt(OPENAPI_SPEC_ENV_VAR, legacy),
     file |-> IF f = None THEN NoFile
              ELSE [exists |-> TRUE, name |-> "cfg.yaml", content |-> content,
                    data |-> (k :> f)]]

Pair(key, sep, value) == <<key, sep, value>>

\* The header lists of the three layers
FileLists ==
    {<<>>,
     <<Pair("X-A", "=", "f")>>,
     <<Pair("X-A", "=", "f"), Pair("X-B", "=", "f")>>,
     <<Pair("X-A", "=", "f"), Pair("X-A", ":", "f2")>>,
     <<<<"X-A">>>>}

EnvLists ==
    {<<>>,
     <<Pair("X-A", "=", "e")>>,
     <<<<" ", "X-B", " ", "=", "e", " ">>, <<" ">>>>,
     <<<<>>>>}

CliLists ==
    {<<>>,
     <<Pair("X-A", "=", "c")>>,
     <<Pair("X-B", "=", "c")>>,
     <<Pair("X-B", "=", "c"), Pair("X-B", "=", "c2")>>,
     <<<<"X-A", ":", "b", "=", "c">>>>}

OptList(key, l) == IF Len(l) = 0 THEN EmptyDict ELSE (key :> l)

\* One list-valued key (headers or auth_headers) over the three layers,
\* --auth-type scheme beside it
ListInput(k, hf, he, hc, scheme) ==
    [argv |-> OptList(k, hc) @@ Opt("config_file", IF Len(hf) = 0 THEN None ELSE "cfg.json")
              @@ ("openapi_spec" :> "base.yaml") @@ Opt("auth_type", scheme)
              @@ Opt("auth_token", IF scheme = "bearer" THEN "tok" ELSE None),
     env |-> OptList(ENV_PREFIX \o EnvName(k), he),
     file |-> IF Len(hf) = 0 THEN NoFile
              ELSE [exists |-> TRUE, name |-> "cfg.json", content |-> "jsonA",
                    data |-> (k :> hf)]]

\* The --header and --auth-header lists given side by side
StaticLists ==
    {<<Pair("X-A", "=", "c")>>,
     <<Pair("Authorization", "=", "static"), Pair("X-S", "=", "s")>>}

AuthLists == {<<>>, <<Pair("X-A", "=", "a")>>, <<Pair("X-K", "=", "k"), Pair("X-S", "=", "a")>>}

\* --header and --auth-header on one command line, --auth-type scheme beside
\* them
MixedInput(hs, ha, scheme) ==
    [argv |-> ("headers" :> hs) @@ OptList("auth_headers", ha)
              @@ ("openapi_spec" :> "base.yaml") @@ Opt("auth_type", scheme)
              @@ Opt("auth_token", IF scheme = "bearer" THEN "tok" ELSE None),
     env |-> EmptyDict,
     file |-> NoFile]

NoInput == [argv |-> EmptyDict, env |-> EmptyDict, file |-> NoFile]

NoOutput == [res |-> None, config |-> NoConfig]

NoStrategy == [_BaseAuthStrategy EXCEPT !.res = None]

NoDocument == [has_servers |-> FALSE, servers |-> <<>>]

\* Nothing was handed to create_auth_strategy or create_http_client yet
ClientIdle ==
    /\ authIn = AuthConfig(None)
    /\ strategy = NoStrategy
    /\ document = NoDocument
    /\ client = NoClient

ConfigIdle ==
    /\ cfgIn = NoInput
    /\ cfgOut = NoOutput
    /\ ClientIdle

(***************************************************************************)
(* The process-wide singletons.  A proxy instance is its number and the    *)
(* source it was built for; number 0 is None.  build is what constructing  *)
(* a proxy does in this call: "ok", or the error that loading the          *)
(* specification or building the client raises.                            *)
(***************************************************************************)
MaxBuilds == 2

ServerSources == {"a.yaml", "b.yaml"}

\* What loading the specification, building the client and constructing the
\* server come to
BuildOutcomes == {"ok", "OpenAPISpecError", "ValueError"}

\* core/server.py: create_proxy(config, loader=loader); available is the
\* module's FastMCPOpenAPI
create_proxy(available, build) ==
    IF available = None THEN "RuntimeError_unavailable" ELSE build

CreateProxyOutcomes == BuildOutcomes \cup {"RuntimeError_unavailable"}

\* What load_runtime_config hands run: the configuration, by its source, or
\* the error it raised
ConfigOutcomes ==
    {[res |-> "ok", source |-> s] : s \in ServerSources}
    \cup {[res |-> e, source |-> None] : e \in {"ConfigError", "JSONDecodeError"}}

NoInstance == [id |-> 0, source |-> None]

Instance(id, source) == [id |-> id, source |-> source]

\* _registry is None
NoRegistry == [set |-> FALSE, source |-> None, proxy |-> NoInstance]

\* ProxyRegistry(config=config): the registry pins config.openapi_source
ProxyRegistry(source) == [set |-> TRUE, source |-> source, proxy |-> NoInstance]

\* A fault: ProxyRegistry.get that builds a proxy at every call
RegistryGetRebuilds(reg, build, id) ==
    IF build # "ok"
    THEN [res |-> build, inst |-> NoInstance, reg |-> reg, built |-> TRUE]
    ELSE [res |-> "ok", inst |-> Instance(id, reg.source),
          reg |-> [reg EXCEPT !.proxy = Instance(id, reg.source)], built |-> TRUE]

\* core/server.py: ProxyRegistry.get; build is what create_proxy comes to
RegistryGet(reg, build, id) ==
    IF reg.proxy.id # 0
    THEN [res |-> "ok", inst |-> reg.proxy, reg |-> reg, built |-> FALSE]
    ELSE IF build # "ok"
    THEN [res |-> build, inst |-> NoInstance, reg |-> reg, built |-> TRUE]
    ELSE [res |-> "ok", inst |-> Instance(id, reg.source),
          reg |-> [reg EXCEPT !.proxy = Instance(id, reg.source)], built |-> TRUE]

\* A fault: get_proxy_instance that does not compare the source asked for with
\* the source the registry was built for
get_proxy_instance_unpinned(reg, source, build, id) ==
    IF ~reg.set
    THEN IF source = None
         THEN [res |-> "RuntimeError_uninitialised", inst |-> NoInstance, reg |-> reg,
               built |-> FALSE]
         ELSE RegistryGet(ProxyRegistry(source), build, id)
    ELSE RegistryGet(reg, build, id)

\* A fault: get_proxy_instance that keeps the new registry only when the proxy
\* was built
get_proxy_instance_pins_on_success(reg, source, build, id) ==
    IF ~reg.set
    THEN IF source = None
         THEN [res |-> "RuntimeError_uninitialised", inst |-> NoInstance, reg |-> reg,
               built |-> FALSE]
         ELSE LET o == RegistryGet(ProxyRegistry(source), build, id)
              IN  IF o.res = "ok" THEN o ELSE [o EXCEPT !.reg = reg]
    ELSE IF source # None /\ source # reg.source
         THEN [res |-> "RuntimeError_switch", inst |-> NoInstance, reg |-> reg,
               built |-> FALSE]
         ELSE RegistryGet(reg, build, id)

\* openapi_mcp_proxy/server.py: get_proxy_instance(config); source is
\* config.openapi_source, None when config is None
get_proxy_instance(reg, source, build, id) ==
    IF ~reg.set
    THEN IF source = None
         THEN [res |-> "RuntimeError_uninitialised", inst |-> NoInstance, reg |-> reg,
               built |-> FALSE]
         ELSE RegistryGet(ProxyRegistry(source), build, id)
    ELSE IF source # None /\ source # reg.source
         THEN [res |-> "RuntimeError_switch", inst |-> NoInstance, reg |-> reg,
               built |-> FALSE]
         ELSE RegistryGet(reg, build, id)

\* openapi_mcp_proxy/server.py: run(argv).  A ConfigError of
\* load_runtime_config and an OpenAPISpecError of the build become
\* SystemExit(1), any other error propagates; a new registry replaces the old
\* one before the proxy is built; ran tells that proxy.run() was called.
run(reg, loaded, build, id) ==
    LET o == RegistryGet(ProxyRegistry(loaded.source), build, id)
    IN  IF loaded.res # "ok"
        THEN [res |-> IF loaded.res = "ConfigError" THEN "SystemExit" ELSE loaded.res,
              inst |-> NoInstance, reg |-> reg, built |-> FALSE, ran |-> FALSE]
        ELSE [res |-> IF o.res = "OpenAPISpecError" THEN "SystemExit" ELSE o.res,
              inst |-> o.inst, reg |-> o.reg, built |-> o.built, ran |-> o.res = "ok"]

\* mcp_cnb_knowledge/server.py: create_mcp_server(openapi_source)
create_mcp_server(source, env, build, id) ==
    LET src == Or(source, env)
    IN  IF src \in {None, ""} THEN [res |-> "OpenAPISpecError", inst |-> NoInstance]
        ELSE IF build # "ok" THEN [res |-> build, inst |-> NoInstance]
        ELSE [res |-> "ok", inst |-> Instance(id, src)]

\* mcp_cnb_knowledge/server.py: get_mcp_instance(openapi_source)
get_mcp_instance(pin, inst, source, env, build, id) ==
    LET pin1 == IF source # None /\ pin = None THEN source ELSE pin
        create_source == IF pin1 # None THEN pin1
                         ELSE IF source # None THEN source ELSE env
        made == create_mcp_server(create_source, env, build, id)
    IN  IF source # None /\ pin # None /\ source # pin
        THEN [res |-> "RuntimeError_switch", inst |-> NoInstance, pin |-> pin, mcp |-> inst,
              built |-> FALSE]
        ELSE IF inst.id # 0
        THEN [res |-> "ok", inst |-> inst, pin |-> pin1, mcp |-> inst, built |-> FALSE]
        ELSE IF made.res # "ok"
        THEN [res |-> made.res, inst |-> NoInstance, pin |-> pin1, mcp |-> inst,
              built |-> TRUE]
        ELSE [res |-> "ok", inst |-> made.inst,
              pin |-> IF pin1 = None THEN create_source ELSE pin1,
              mcp |-> made.inst, built |-> TRUE]

\* mcp_cnb_knowledge/config.py: parse_openapi_source(argv, env); source is the
\* --openapi-spec of argv, None when it is not given
parse_openapi_source(source, env) ==
    IF Truthy(source) THEN [err |-> "ok", source |-> source]
    ELSE IF Truthy(env) THEN [err |-> "ok", source |-> env]
    ELSE [err |-> "ValueError", source |-> None]

\* mcp_cnb_knowledge/server.py: run(argv).  The ValueError of
\* parse_openapi_source and an OpenAPISpecError of get_mcp_instance become
\* SystemExit(1), any other error propagates; ran tells that mcp.run() was
\* called.
cnb_run(pin, inst, source, env, build, id) ==
    LET parsed == parse_openapi_source(source, env)
        o == get_mcp_instance(pin, inst, parsed.source, env, build, id)
    IN  IF parsed.err # "ok"
        THEN [res |-> "SystemExit", arg |-> None, inst |-> NoInstance, pin |-> pin,
              mcp |-> inst, built |-> FALSE, ran |-> FALSE]
        ELSE [res |-> IF o.res = "OpenAPISpecError" THEN "SystemExit" ELSE o.res,
              arg |-> parsed.source, inst |-> o.inst, pin |-> o.pin, mcp |-> o.mcp,
              built |-> o.built, ran |-> o.res = "ok"]

NoGet ==
    [fn |-> None, arg |-> None, res |-> None, inst |-> NoInstance, built |-> FALSE,
     ran |-> FALSE]

ServerIdle ==
    /\ registry = NoRegistry
    /\ pinned = None
    /\ mcp = NoInstance
    /\ envSpec = None
    /\ FastMCPOpenAPI = "FastMCPOpenAPI"
    /\ nextId = 0
    /\ lastGet = NoGet

\* A call of get_proxy_instance.
GetProxyInstance(source, build) ==
    LET o == get_proxy_instance(registry, source, create_proxy(FastMCPOpenAPI, build),
                                nextId + 1)
    IN  /\ o.built /\ o.res = "ok" => nextId < MaxBuilds
        /\ registry' = o.reg
        /\ nextId' = IF o.built /\ o.res = "ok" THEN nextId + 1 ELSE nextId
        /\ lastGet' = [fn |-> "get_proxy_instance", arg |-> source, res |-> o.res,
                       inst |-> o.inst, built |-> o.built, ran |-> FALSE]
        /\ tick' = ~tick
        /\ UNCHANGED <<pinned, mcp, envSpec, FastMCPOpenAPI>>
        /\ UNCHANGED loaderVars
        /\ UNCHANGED configVars

\* A call of run.
Run(loaded, build) ==
    LET o == run(registry, loaded, create_proxy(FastMCPOpenAPI, build), nextId + 1)
    IN  /\ o.res = "ok" => nextId < MaxBuilds
        /\ registry' = o.reg
        /\ nextId' = IF o.res = "ok" THEN nextId + 1 ELSE nextId
        /\ lastGet' = [fn |-> "run", arg |-> loaded.source, res |-> o.res,
                       inst |-> o.inst, built |-> o.built, ran |-> o.ran]
        /\ tick' = ~tick
        /\ UNCHANGED <<pinned, mcp, envSpec, FastMCPOpenAPI>>
        /\ UNCHANGED loaderVars
        /\ UNCHANGED configVars

\* A call of get_mcp_instance.
GetMcpInstance(source, build) ==
    LET o == get_mcp_instance(pinned, mcp, source, envSpec, build, nextId + 1)
    IN  /\ o.built /\ o.res = "ok" => nextId < MaxBuilds
        /\ pinned' = o.pin
        /\ mcp' = o.mcp
        /\ nextId' = IF o.built /\ o.res = "ok" THEN nextId + 1 ELSE nextId
        /\ lastGet' = [fn |-> "get_mcp_instance", arg |-> source, res |-> o.res,
                       inst |-> o.inst, built |-> o.built, ran |-> FALSE]
        /\ tick' = ~tick
        /\ UNCHANGED <<registry, envSpec, FastMCPOpenAPI>>
        /\ UNCHANGED loaderVars
        /\ UNCHANGED configVars

\* A call of run of mcp_cnb_knowledge/server.py; source is the --openapi-spec
\* of its command line.
RunCnb(source, build) ==
    LET o == cnb_run(pinned, mcp, source, envSpec, build, nextId + 1)
    IN  /\ o.built /\ o.res = "ok" => nextId < MaxBuilds
        /\ pinned' = o.pin
        /\ mcp' = o.mcp
        /\ nextId' = IF o.built /\ o.res = "ok" THEN nextId + 1 ELSE nextId
        /\ lastGet' = [fn |-> "cnb_run", arg |-> o.arg, res |-> o.res, inst |-> o.inst,
                       built |-> o.built, ran |-> o.ran]
        /\ tick' = ~tick
        /\ UNCHANGED <<registry, envSpec, FastMCPOpenAPI>>
        /\ UNCHANGED loaderVars
        /\ UNCHANGED configVars

LoaderIdle ==
    /\ variant = "core"
    /\ fname = "spec.yaml"
    /\ fs = [exists |-> FALSE, mtime |-> 0, content |-> None]
    /\ remote = [kind |-> "error", content |-> None]
    /\ cache = [k \in {} |-> None]
    /\ last = [src |-> None, res |-> None, doc |-> None, stat |-> FALSE, read |-> FALSE,
               http |-> FALSE, mtime |-> 0, content |-> None, had |-> FALSE,
               again |-> FALSE, io |-> None]
    /\ okDocs = [k \in {} |-> None]
    /\ labels = {}
    /\ texts = {}
    /\ ios = {}

InitServer ==
    /\ LoaderIdle
    /\ ConfigIdle
    /\ tick = FALSE
    /\ registry = NoRegistry
    /\ pinned = None
    /\ mcp = NoInstance
    /\ envSpec \in {None, ""} \cup ServerSources
    /\ FastMCPOpenAPI \in {None, "FastMCPOpenAPI"}
    /\ nextId = 0
    /\ lastGet = NoGet

NextServer ==
    \/ \E source \in {None} \cup ServerSources, build \in BuildOutcomes :
          GetProxyInstance(source, build)
    \/ \E loaded \in ConfigOutcomes, build \in BuildOutcomes : Run(loaded, build)
    \/ \E source \in {None, ""} \cup ServerSources, build \in BuildOutcomes :
          GetMcpInstance(source, build)
    \/ \E source \in {None, ""} \cup ServerSources, build \in BuildOutcomes :
          RunCnb(source, build)

SpecServer == InitServer /\ [][NextServer]_vars

(***************************************************************************)
(* Resolving the configuration: one call of load_runtime_config on the     *)
(* command line, environment and configuration file the process was given. *)
(***************************************************************************)
LoadRuntimeConfig ==
    /\ cfgOut.res = None
    /\ cfgOut' = load_runtime_config(cfgIn.argv, cfgIn.env, cfgIn.file)
    /\ tick' = ~tick
    /\ UNCHANGED <<cfgIn, authIn, strategy, document, client>>
    /\ UNCHANGED loaderVars
    /\ UNCHANGED serverVars

InitConfig ==
    /\ LoaderIdle
    /\ ServerIdle
    /\ tick = FALSE
    /\ cfgOut = NoOutput
    /\ ClientIdle
    /\ \/ \E k \in ScalarKeys :
          \E f \in FileValues(k), e \in EnvTexts(k), c \in CliTexts(k),
             base \in {None, "base.yaml"}, legacy \in {None, "", "legacy.yaml"},
             content \in ConfigContents :
              /\ k = "openapi_spec" => base = None
              /\ k # "openapi_spec" => legacy = None
              /\ f = None => content = "yamlB"
              /\ cfgIn = ScalarInput(k, f, e, c, base, legacy, content)
       \/ \E k \in ListAttrs, hf \in FileLists, he \in EnvLists, hc \in CliLists,
            scheme \in {None, "header", "bearer"} :
              /\ k = "headers" => scheme = None
              /\ cfgIn = ListInput(k, hf, he, hc, scheme)
       \/ \E hs \in StaticLists, ha \in AuthLists, scheme \in {None, "header", "bearer"} :
              cfgIn = MixedInput(hs, ha, scheme)

\* A servers entry with a string url, given as pieces
Server(url) == [mapping |-> TRUE, has_url |-> TRUE, url |-> url]

\* A servers entry that is no mapping, and one without a string url
NotMapping == [mapping |-> FALSE, has_url |-> FALSE, url |-> <<>>]

NoUrl == [mapping |-> TRUE, has_url |-> FALSE, url |-> <<>>]

\* The specification documents create_http_client is given
Documents ==
    {NoDocument,
     [has_servers |-> TRUE, servers |-> <<>>],
     [has_servers |-> TRUE, servers |-> <<Server(<<"https://s1">>)>>],
     [has_servers |-> TRUE,
      servers |-> <<NotMapping, Server(<<" ">>), Server(<<" ", "https://s2", " ">>),
                    Server(<<"https://s1">>)>>],
     [has_servers |-> TRUE, servers |-> <<NoUrl, Server(<<>>)>>]}

\* create_http_client(config, spec) on the RuntimeConfig just resolved; the
\* AuthConfig it hands to create_auth_strategy and the strategy it gets back
\* are recorded beside the client.
CreateHttpClient ==
    /\ cfgOut.res = "ok"
    /\ client.res = None
    /\ \E spec \in Documents :
          /\ document' = spec
          /\ client' = create_http_client(cfgOut.config, spec)
    /\ authIn' = cfgOut.config.auth
    /\ strategy' = create_auth_strategy(cfgOut.config.auth)
    /\ tick' = ~tick
    /\ UNCHANGED <<cfgIn, cfgOut>>
    /\ UNCHANGED loaderVars
    /\ UNCHANGED serverVars

NextConfig ==
    \/ LoadRuntimeConfig
    \/ CreateHttpClient

SpecConfig == InitConfig /\ [][NextConfig]_vars

\* The extra_headers an AuthConfig is constructed with
Extras ==
    {EmptyDict,
     ("X-Extra" :> "e"),
     ("Authorization" :> "Basic zzz"),
     ("X-API-Key" :> "other") @@ ("X-Auth" :> "other")}

\* The AuthConfig values create_auth_strategy is called with directly
AuthInputs ==
    {[AuthConfig(s) EXCEPT !.token = t, !.extra_headers = x] :
        s \in {"bearer", "Bearer"}, t \in {None, "", "abc"}, x \in Extras}
    \cup {[AuthConfig("basic") EXCEPT !.username = u, !.password = p, !.extra_headers = x] :
             u \in {None, "", "user"}, p \in {None, "pw"}, x \in Extras}
    \cup {[AuthConfig("header") EXCEPT !.header_name = n, !.header_value = v,
                                       !.extra_headers = x] :
             n \in {None, "X-Auth"}, v \in {None, "hv"}, x \in Extras}
    \cup {[AuthConfig("api-key") EXCEPT !.api_key_name = n, !.api_key_value = v,
                                        !.api_key_location = l, !.extra_headers = x] :
             n \in {None, "", "key"}, v \in {None, "kv"},
             l \in {None, "", "header", "query", "cookie", "QUERY", "body"}, x \in Extras}
    \cup {[AuthConfig(s) EXCEPT !.token = t, !.extra_headers = x] :
             s \in {None, "", "none", "digest", "OAuth2"}, t \in {None, "abc"},
             x \in Extras}

\* create_auth_strategy(config) on an AuthConfig constructed directly
CreateAuthStrategy ==
    /\ strategy.res = None
    /\ strategy' = create_auth_strategy(authIn)
    /\ tick' = ~tick
    /\ UNCHANGED <<cfgIn, cfgOut, authIn, document, client>>
    /\ UNCHANGED loaderVars
    /\ UNCHANGED serverVars

InitAuth ==
    /\ LoaderIdle
    /\ ServerIdle
    /\ tick = FALSE
    /\ cfgIn = NoInput
    /\ cfgOut = NoOutput
    /\ authIn \in AuthInputs
    /\ strategy = NoStrategy
    /\ document = NoDocument
    /\ client = NoClient

NextAuth == CreateAuthStrategy

SpecAuth == InitAuth /\ [][NextAuth]_vars

(***************************************************************************)
(* Actions of the loader.                                                  *)
(***************************************************************************)
NoCall ==
    [src |-> None, res |-> None, doc |-> None, stat |-> FALSE, read |-> FALSE,
     http |-> FALSE, mtime |-> NoMtime, content |-> None, had |-> FALSE,
     again |-> FALSE, io |-> None]

\* The file as read_text may find it: as stat found it, or as something
\* outside the process has left it since; a call that does not read leaves the
\* file as it is.
ReadStates(reads) == IF reads THEN {fs} \cup FileStates(texts) ELSE {fs}

\* loader.load(source): one call, recorded in last.  The call stats the file
\* as it is (fs) and reads it, when it reads, as it is then (g): something
\* outside the process may write or remove the file between the two system
\* calls, and the file system is left as the read found it.  content (what the
\* denoted file held when the call ended), had (the key was cached before the
\* call), again (the call before was a successful load of the same source) and
\* io (what the operating system did to the call) are history, not program
\* state.
Load(label, io) ==
    \E g \in ReadStates(LoadOutcome(variant, Src(label), cache, io, fs, fs, remote).read) :
    \E o \in {LoadOutcome(variant, Src(label), cache, io, fs, g, remote)} :
    LET source == Src(label)
    IN  /\ fs' = g
        /\ cache' = o.cache
        /\ last' = [src |-> label, res |-> o.res, doc |-> o.doc, stat |-> o.stat,
                    read |-> o.read, http |-> o.http, mtime |-> o.mtime,
                    content |-> FileAt(Denotes(source), g).content,
                    had |-> KeyOf(variant, source) \in DOMAIN cache,
                    again |-> last.src = label /\ last.res = "ok",
                    io |-> io]
        /\ okDocs' = IF o.res = "ok" /\ label \in HttpLabels /\ label \notin DOMAIN okDocs
                     THEN [l \in DOMAIN okDocs \cup {label} |->
                              IF l = label THEN o.doc ELSE okDocs[l]]
                     ELSE okDocs
        /\ tick' = ~tick
        /\ UNCHANGED <<variant, fname, remote, labels, texts, ios>>
        /\ UNCHANGED serverVars
        /\ UNCHANGED configVars

\* Something outside the process writes the file: new content, any mtime.
WriteFile ==
    /\ \E m \in Mtimes, c \in texts :
          fs' = [exists |-> TRUE, mtime |-> m, content |-> c]
    /\ fs' # fs
    /\ UNCHANGED <<variant, fname, remote, cache, last, okDocs, tick, labels, texts, ios>>
    /\ UNCHANGED serverVars
    /\ UNCHANGED configVars

\* Something outside the process removes the file.
RemoveFile ==
    /\ fs.exists
    /\ fs' = Missing
    /\ UNCHANGED <<variant, fname, remote, cache, last, okDocs, tick, labels, texts, ios>>
    /\ UNCHANGED serverVars
    /\ UNCHANGED configVars

\* The HTTP server changes what it answers.
ServerChange ==
    /\ remote' \in Responses(texts)
    /\ remote' # remote
    /\ UNCHANGED <<variant, fname, fs, cache, last, okDocs, tick, labels, texts, ios>>
    /\ UNCHANGED serverVars
    /\ UNCHANGED configVars

EmptyMap == [k \in {} |-> None]

InitLoader ==
    /\ variant \in {"core", "cnb"}
    /\ cache = EmptyMap
    /\ last = NoCall
    /\ okDocs = EmptyMap
    /\ tick = FALSE
    /\ ServerIdle
    /\ ConfigIdle

\* Loads of one local file under two spellings while the file changes on disk.
LocalTexts == {"jsonA", "yamlB", "listJ"}

LocalUniverses == {{"rel", "file"}}

InitLocal ==
    /\ InitLoader
    /\ fname \in FileNames
    /\ labels \in LocalUniverses
    /\ texts = LocalTexts
    /\ ios = {"ok"}
    /\ fs \in FileStates(texts)
    /\ remote = [kind |-> "error", content |-> None]

NextLocal ==
    \/ \E label \in labels, io \in ios : Load(label, io)
    \/ WriteFile
    \/ RemoveFile

Spec == InitLocal /\ [][NextLocal]_vars

\* Loads of every spelling of the local files.
InitKeys ==
    /\ InitLoader
    /\ fname = "spec.yaml"
    /\ labels = LocalLabels
    /\ texts = {"jsonA"}
    /\ ios = {"ok"}
    /\ fs \in FileStates(texts)
    /\ remote = [kind |-> "error", content |-> None]

SpecKeys == InitKeys /\ [][NextLocal]_vars

\* Loads of local, file://, unsupported and unreachable HTTP sources while the
\* file changes, the operating system refuses calls, and the file may hold
\* bytes that are not UTF-8 or text that does not parse.
FaultTexts == {"jsonA", "listJ", "broken", Undecodable}

FaultUniverses ==
    {{"rel", "ftp"}, {"file", "file_remote"}, {"abs", "file_nopath"}, {"dotrel", "http_plain"}}

InitFaults ==
    /\ InitLoader
    /\ fname = "spec"
    /\ labels \in FaultUniverses
    /\ texts = FaultTexts
    /\ ios = IoOutcomes
    /\ fs \in FileStates(texts)
    /\ remote = [kind |-> "error", content |-> None]

SpecFaults == InitFaults /\ [][NextLocal]_vars

\* Loads of one local file under every kind of name, holding every kind of
\* content.
ParseNames == FileNames \cup {"spec.yml", "spec.JSON", "spec.txt"}

InitParse ==
    /\ InitLoader
    /\ fname \in ParseNames
    /\ labels = {"rel"}
    /\ texts = Contents
    /\ ios = {"ok"}
    /\ fs \in FileStates(texts)
    /\ remote = [kind |-> "error", content |-> None]

SpecParse == InitParse /\ [][NextLocal]_vars

\* Loads of HTTP sources while the server changes its answer.
HttpUniverses == {{"http_yaml", "http_plain"}, {"HTTP_yaml", "http_json_q"}}

InitHttp ==
    /\ InitLoader
    /\ fname = "spec.yaml"
    /\ labels \in HttpUniverses
    /\ texts = Contents
    /\ ios = {"ok"}
    /\ fs = Missing
    /\ remote \in Responses(texts)

NextHttp ==
    \/ \E label \in labels, io \in ios : Load(label, io)
    \/ ServerChange

SpecHttp == InitHttp /\ [][NextHttp]_vars

(***************************************************************************)
(* Properties of the loader.                                               *)
(***************************************************************************)
LoadStep == tick' # tick

\* The local file the operating system shows to a load of this source now.
Target(label) == FileAt(Denotes(Src(label)), fs)

\* C1: a load of a local source that follows a successful load of the same
\* source, the file's modification time being what it was at that load, returns
\* the document the first load returned and reads no file: it only stats.
C1_SecondLoadHitsCache ==
    [][ (/\ LoadStep
         /\ last.res = "ok"
         /\ last.stat
         /\ last'.src = last.src
         /\ Target(last.src).exists
         /\ Target(last.src).mtime = last.mtime)
        => (/\ last'.res = "ok"
            /\ last'.doc = last.doc
            /\ last'.stat
            /\ ~last'.read
            /\ ~last'.http) ]_vars

\* C1 witness: a second load of a source has just returned the cached document
\* of a file whose content was replaced on disk without a change of its mtime.
C1_Witness ==
    /\ last.again
    /\ last.res = "ok"
    /\ last.stat
    /\ ~last.read
    /\ _parse_spec(last.content, PathSuffix(<<fname>>)).doc # last.doc

\* C2 as stated: when the file behind a cached key has had its content and
\* its modification time both changed since the previous load call of the same
\* source (and the new content is a valid document), the load reads the file
\* again, returns the document of the new content and caches it with the new
\* mtime.
C2_ChangedSinceLastCall ==
    [][ (/\ LoadStep
         /\ last'.src = last.src
         /\ last.stat
         /\ last.content # None
         /\ last.mtime # NoMtime
         /\ KeyOf(variant, Src(last.src)) \in DOMAIN cache
         /\ Target(last.src).exists
         /\ Target(last.src).mtime # last.mtime
         /\ Target(last.src).content # last.content
         /\ _parse_spec(Target(last.src).content, PathSuffix(<<fname>>)).err = "ok")
        => (/\ last'.read
            /\ last'.res = "ok"
            /\ last'.doc = _parse_spec(Target(last.src).content, PathSuffix(<<fname>>)).doc
            /\ cache'[KeyOf(variant, Src(last.src))] =
                   _CacheEntry(last'.doc, Target(last.src).mtime)) ]_vars

\* The local file a load of this source has just been shown by read_text.
TargetRead(label) == FileAt(Denotes(Src(label)), fs')

\* C2 as amended: when the modification time the load's stat returns for the
\* file behind a cached key differs from the mtime stored in the cache entry
\* (the mtime stat returned to the last load that succeeded), the load reads
\* the file again; when what it reads is a valid document it returns that
\* document and replaces the entry by that document and the mtime stat
\* returned.  The file may be rewritten between the stat and the read: the
\* document is then the one of the rewritten content, stored with the mtime
\* of before.
C2_StaleEntryReloaded ==
    [][ \A label \in {last'.src} \cap labels :
        \A key \in {KeyOf(variant, Src(label))} :
        \A target \in {Target(label)}, read \in {TargetRead(label)} :
          (/\ LoadStep
           /\ Denotes(Src(label)) # "none"
           /\ key \in DOMAIN cache
           /\ target.exists
           /\ target.mtime # cache[key].mtime)
          => (/\ last'.read
              /\ last'.mtime = target.mtime
              /\ (/\ read.exists
                  /\ _parse_spec(read.content, PathSuffix(<<fname>>)).err = "ok")
                 => (/\ last'.res = "ok"
                     /\ last'.doc = _parse_spec(read.content, PathSuffix(<<fname>>)).doc
                     /\ cache'[key] = _CacheEntry(last'.doc, target.mtime))
              /\ last'.res # "ok" => cache' = cache) ]_vars

\* C2 witness: a load found its key cached with another mtime than the file's,
\* read the file again and now the entry holds the document of the file's
\* present content and its mtime.
C2_Witness ==
    /\ last.had
    /\ last.read
    /\ last.res = "ok"
    /\ fs.exists
    /\ last.mtime = fs.mtime
    /\ last.doc = _parse_spec(fs.content, PathSuffix(<<fname>>)).doc
    /\ cache[KeyOf(variant, Src(last.src))] =
           _CacheEntry(_parse_spec(fs.content, PathSuffix(<<fname>>)).doc, fs.mtime)

\* C3: once a load of an HTTP(S) URL has succeeded, every later load of that
\* URL returns the document of that first load and sends no request, whatever
\* the server answers now; a request is sent only for a URL no load of which
\* has succeeded.
C3_HttpLoadedOnce ==
    [][ \A label \in HttpLabels :
          (LoadStep /\ last'.src = label)
          => (/\ label \in DOMAIN okDocs
                    => (last'.res = "ok" /\ last'.doc = okDocs[label] /\ ~last'.http)
              /\ last'.http => label \notin DOMAIN okDocs) ]_vars

\* C3 witness: a URL loaded before is returned from the cache, without a
\* request, while the server would now answer with another document.
C3_Witness ==
    /\ last.src \in DOMAIN okDocs
    /\ last.had
    /\ last.res = "ok"
    /\ ~last.http
    /\ remote.kind = "ok"
    /\ _parse_spec(remote.content, ".yaml").err = "ok"
    /\ _parse_spec(remote.content, ".yaml").doc # last.doc

\* C17: a load of an HTTP(S) URL that sends a request and gets no answer in
\* time raises the timeout form of OpenAPISpecError; one that gets a non-2xx
\* response or another transport failure raises the HTTP-error form; neither
\* form is raised for the other cause, and neither stores a cache entry.
C17_HttpFailureForms ==
    [][ \A label \in HttpLabels :
          (LoadStep /\ last'.src = label /\ last'.http)
          => (/\ remote.kind = "timeout" <=> last'.res = "timeout"
              /\ remote.kind \in {"error", "status"} <=> last'.res = "http_error"
              /\ last'.res \in {"timeout", "http_error"} => cache' = cache) ]_vars

\* C17 witness: with one URL cached, a load of another URL has just timed out
\* and the cache holds the one entry still.
C17_Witness ==
    /\ last.src \in HttpLabels
    /\ last.http
    /\ last.res = "timeout"
    /\ remote.kind = "timeout"
    /\ Cardinality(DOMAIN cache) = 1
    /\ KeyOf(variant, Src(last.src)) \notin DOMAIN cache

\* The spellings in use that denote the local file behind directory entry n.
Spellings(n) == {label \in labels : Denotes(Src(label)) = n}

\* C4: the source strings that denote one local file all have the same cache
\* key, so that file never has more than one entry in the cache.
C4_OneEntryPerFile ==
    \A n \in {"F", "G"} :
        Cardinality({KeyOf(variant, Src(label)) : label \in Spellings(n)}
                        \cap DOMAIN cache) <= 1

\* C24: a load of a local or file:// source whose key is already cached stats
\* the file, and returns no cached document for a file that cannot be stat'd:
\* it raises the 'does not exist' error when the file is gone and the distinct
\* 'cannot access' error when stat fails for another reason.
C24_CachedSourceStatted ==
    [][ \A label \in {last'.src} \cap labels :
        \A target \in {Target(label)} :
          (/\ LoadStep
           /\ Denotes(Src(label)) # "none"
           /\ KeyOf(variant, Src(label)) \in DOMAIN cache)
          => (/\ last'.stat
              /\ last'.io = "stat_denied" => last'.res = "no_access" /\ last'.doc = None
              /\ last'.io # "stat_denied" /\ ~target.exists
                    => last'.res = "not_exist" /\ last'.doc = None
              /\ last'.res = "ok" => last'.io # "stat_denied" /\ target.exists) ]_vars

\* C24 witness: the file behind a cached key was removed and the load that
\* followed raised the 'does not exist' error; the entry is still cached.
C24_Witness ==
    /\ last.had
    /\ last.stat
    /\ last.res = "not_exist"
    /\ ~fs.exists
    /\ KeyOf(variant, Src(last.src)) \in DOMAIN cache

\* What a load that read the file made of its content
ParseOutcome == [err |-> last.res, doc |-> last.doc]

\* The extension hint of the file loaded
Hint == PathSuffix(<<fname>>)

\* C25: the loader picks the parser from the extension hint.  With .json the
\* outcome is the JSON parser's alone and with .yaml or .yml the YAML parser's
\* alone, a failure naming that format; with no or another extension the
\* outcome is the YAML parser's when YAML succeeds, and otherwise the JSON
\* parser's document or error.
C25_ParserByExtension ==
    last.read /\ last.content # None =>
        CASE Hint = ".json" ->
               /\ ParseOutcome = _parse_json(last.content)
               /\ last.res \in {"ok", "bad_json", "not_object_json"}
          [] Hint \in {".yaml", ".yml"} ->
               /\ ParseOutcome = _parse_yaml(last.content)
               /\ last.res \in {"ok", "bad_yaml", "not_object_yaml"}
          [] OTHER ->
               IF _parse_yaml(last.content).err = "ok"
               THEN ParseOutcome = _parse_yaml(last.content)
               ELSE /\ ParseOutcome = _parse_json(last.content)
                    /\ last.res \in {"ok", "bad_json", "not_object_json"}

\* C25 witness: a file with an unrecognized extension whose content YAML
\* rejects and JSON accepts was loaded; the document is the JSON parser's.
C25_Witness ==
    /\ fname = "spec.txt"
    /\ last.read
    /\ last.content = "jsonTabC"
    /\ _parse_yaml(last.content).err = "bad_yaml"
    /\ last.res = "ok"
    /\ last.doc = "docC"

\* The cache key of the source a load step loads
LoadedKey == KeyOf(variant, Src(last'.src))

\* C26: across any sequence of loads no cache entry is removed; an entry is
\* created only by a successful load of its key; an entry is replaced only by a
\* successful load of its key that read a local file whose modification time
\* differed from the stored one; a load that fails leaves every entry as it
\* was.
C26_CacheLifecycle ==
    [][ /\ DOMAIN cache \subseteq DOMAIN cache'
        /\ \A key \in DOMAIN cache' \ DOMAIN cache :
              /\ LoadStep
              /\ last'.res = "ok"
              /\ key = LoadedKey
              /\ cache'[key].spec = last'.doc
        /\ \A key \in DOMAIN cache :
              cache'[key] # cache[key] =>
                  /\ LoadStep
                  /\ last'.res = "ok"
                  /\ key = LoadedKey
                  /\ last'.src \in LocalLabels
                  /\ last'.read
                  /\ Target(last'.src).mtime # cache[key].mtime
                  /\ cache'[key] = _CacheEntry(last'.doc, Target(last'.src).mtime)
        /\ LoadStep /\ last'.res # "ok" => cache' = cache ]_vars

\* C26 witness: the file behind a cached key was rewritten with a new
\* modification time and text that does not parse; the load of it failed and
\* the entry still holds the old document and the old modification time.
C26_Witness ==
    /\ last.had
    /\ last.read
    /\ last.res \in {"bad_json", "not_object_json"}
    /\ fs.exists
    /\ KeyOf(variant, Src(last.src)) \in DOMAIN cache
    /\ cache[KeyOf(variant, Src(last.src))].mtime # fs.mtime
    /\ cache[KeyOf(variant, Src(last.src))].spec = "docA"

\* The results of a load that are an OpenAPISpecError raised
OpenAPISpecErrors ==
    {"unsupported", "file_host", "file_nopath", "not_exist", "no_access", "read_fail",
     "timeout", "http_error", "bad_yaml", "bad_json", "not_object_yaml", "not_object_json"}

\* C13: across any sequence of loads, every load either returns a mapping or
\* raises OpenAPISpecError, and no cache entry holds anything but a mapping.
C13_MappingOrSpecError ==
    /\ last.res # None =>
          \/ last.res = "ok" /\ last.doc \in Docs
          \/ last.res \in OpenAPISpecErrors
    /\ \A key \in DOMAIN cache : cache[key].spec \in Docs

(***************************************************************************)
(* Properties of the configuration merge.  What each layer of the input    *)
(* supplies is read from the input itself, not from the merge.             *)
(***************************************************************************)
Resolved == cfgOut.res = "ok"

FileSupplies(k) == cfgIn.file.exists /\ k \in DOMAIN cfgIn.file.data

EnvSupplies(k) == Truthy(EnvGet(cfgIn.env, ENV_PREFIX \o EnvName(k)))

CliSupplies(k) == k \in DOMAIN cfgIn.argv

LegacySet == Truthy(EnvGet(cfgIn.env, OPENAPI_SPEC_ENV_VAR))

\* The value a layer states for key k, as the type the layer gives it
EnvGives(k) ==
    LET text == cfgIn.env[ENV_PREFIX \o EnvName(k)]
    IN  CASE k = "timeout" -> float(text)
          [] k = "retries" -> int(text)
          [] k = "verify_ssl" -> _parse_bool(text)
          [] k = "proxies" -> _parse_proxy_value(text)
          [] OTHER -> text

CliGives(k) ==
    LET text == cfgIn.argv[k]
    IN  CASE k = "timeout" -> float(text)
          [] k = "retries" -> int(text)
          [] k = "verify_ssl" -> IF text = "--verify-ssl" THEN "True" ELSE "False"
          [] OTHER -> text

\* The value of the highest layer that supplies key k
Highest(k) ==
    IF CliSupplies(k) THEN CliGives(k)
    ELSE IF EnvSupplies(k) THEN EnvGives(k)
    ELSE cfgIn.file.data[k]

\* The value v of key k as the RuntimeConfig holds it
Held(k, v) ==
    CASE k = "timeout" -> float(v)
      [] k = "retries" -> int(v)
      [] k = "auth_type" -> Lower(v)
      [] OTHER -> v

\* The field of the RuntimeConfig that carries key k
Field(config, k) ==
    CASE k = "openapi_spec" -> config.openapi_source
      [] k = "server_name" -> config.server_name
      [] k = "base_url" -> config.base_url
      [] k = "timeout" -> config.client.timeout
      [] k = "verify_ssl" -> config.client.verify_ssl
      [] k = "retries" -> config.client.retries
      [] k = "proxies" -> config.client.proxies
      [] k = "auth_type" -> config.auth.scheme
      [] k = "auth_token" -> config.auth.token
      [] k = "auth_username" -> config.auth.username
      [] k = "auth_password" -> config.auth.password
      [] k = "auth_key_name" -> config.auth.api_key_name
      [] k = "auth_key_value" -> config.auth.api_key_value
      [] k = "auth_key_location" -> config.auth.api_key_location

\* The resolved scheme uses key k
Carried(config, k) ==
    CASE k = "auth_token" -> config.auth.scheme = "bearer"
      [] k \in {"auth_username", "auth_password"} -> config.auth.scheme = "basic"
      [] k \in {"auth_key_name", "auth_key_value", "auth_key_location"} ->
           config.auth.scheme = "api-key"
      [] OTHER -> TRUE

\* Key k of a returned RuntimeConfig has the value of the highest layer
FromHighest(k) ==
    (FileSupplies(k) \/ EnvSupplies(k) \/ CliSupplies(k)) /\ Carried(cfgOut.config, k)
        => Field(cfgOut.config, k) = Held(k, Highest(k))

\* C5: in a returned RuntimeConfig every scalar key supplied by some layer has
\* the value of the highest layer that supplies it, in the order configuration
\* file < environment variables < command-line flags (the legacy variable
\* MCP_OPENAPI_SPEC left unset).
C5_HighestLayerWins ==
    Resolved /\ ~LegacySet => \A k \in ScalarKeys : FromHighest(k)

\* The header strings of a list-valued key, layer by layer: file, environment,
\* command line
Layers(k) ==
    <<IF FileSupplies(k) THEN cfgIn.file.data[k] ELSE <<>>,
      IF ENV_PREFIX \o EnvName(k) \in DOMAIN cfgIn.env
      THEN _split_key_value_list(cfgIn.env[ENV_PREFIX \o EnvName(k)]) ELSE <<>>,
      IF CliSupplies(k) THEN cfgIn.argv[k] ELSE <<>>>>

\* The same strings in the order they are applied
Applied(k) == Layers(k)[1] \o Layers(k)[2] \o Layers(k)[3]

\* The keys of the well-formed header strings of a list
KeysOf(l) ==
    {_parse_key_value(l[i]).key : i \in {j \in 1..Len(l) : _parse_key_value(l[j]).err = "ok"}}

\* The values a list of header strings gives a key
ValuesOf(l, key) ==
    {_parse_key_value(l[i]).value : i \in {j \in 1..Len(l) : _parse_key_value(l[j]).key = key}}

\* Dict d is the key-wise merge of the header strings all: it has exactly
\* their keys, each with the value of its last occurrence
KeyWiseMerge(d, all) ==
    /\ DOMAIN d = {_parse_key_value(all[i]).key : i \in 1..Len(all)}
    /\ \A i \in 1..Len(all) :
          (\A j \in (i + 1)..Len(all) :
              _parse_key_value(all[j]).key # _parse_key_value(all[i]).key)
          => d[_parse_key_value(all[i]).key] = _parse_key_value(all[i]).value

\* C6: the headers of a returned RuntimeConfig are the key-wise merge of the
\* header lists of the file, the environment and the command line, applied in
\* that order: every key supplied is present, with its last-applied value.
C6_HeadersMergedByKey ==
    Resolved => KeyWiseMerge(cfgOut.config.headers, Applied("headers"))

\* C6 witness: a header only the file supplies is kept beside one the command
\* line overrides.
C6_Witness ==
    /\ Resolved
    /\ cfgIn.file.exists
    /\ "headers" \in DOMAIN cfgIn.file.data
    /\ cfgIn.file.data["headers"] = <<Pair("X-A", "=", "f"), Pair("X-B", "=", "f")>>
    /\ "headers" \in DOMAIN cfgIn.argv
    /\ cfgIn.argv["headers"] = <<Pair("X-B", "=", "c"), Pair("X-B", "=", "c2")>>
    /\ cfgOut.config.headers = [h \in {"X-A", "X-B"} |-> IF h = "X-A" THEN "f" ELSE "c2"]

\* C7: the extra auth headers of a returned RuntimeConfig are the key-wise
\* merge of the auth header lists of the file, the environment and the command
\* line: a key only a lower layer supplies is present, and a key several layers
\* supply has the highest layer's value.
C7_AuthHeadersMergedByKey ==
    Resolved =>
        \A n \in 1..3 : \A key \in KeysOf(Layers("auth_headers")[n]) :
            (\A m \in (n + 1)..3 : key \notin KeysOf(Layers("auth_headers")[m]))
            => /\ key \in DOMAIN cfgOut.config.auth.extra_headers
               /\ cfgOut.config.auth.extra_headers[key]
                     \in ValuesOf(Layers("auth_headers")[n], key)

\* C8: when the file, MCP_PROXY_SPEC or --openapi-spec supplies openapi_spec,
\* the resolved source is the highest of those three and the legacy variable
\* MCP_OPENAPI_SPEC has no influence; when none supplies it and the legacy
\* variable is set, the resolved source is the legacy variable's value.
C8_LegacyOnlyFallback ==
    Resolved =>
        IF FileSupplies("openapi_spec") \/ EnvSupplies("openapi_spec")
           \/ CliSupplies("openapi_spec")
        THEN cfgOut.config.openapi_source = Highest("openapi_spec")
        ELSE LegacySet => cfgOut.config.openapi_source = cfgIn.env[OPENAPI_SPEC_ENV_VAR]

\* No layer supplies a source: no --openapi-spec, no openapi_spec in a
\* configuration file, MCP_PROXY_SPEC and MCP_OPENAPI_SPEC unset or empty
NoSource ==
    /\ ~CliSupplies("openapi_spec")
    /\ ~FileSupplies("openapi_spec")
    /\ ~EnvSupplies("openapi_spec")
    /\ ~LegacySet

Called == cfgOut.res # None

\* The error that names the three ways to supply the source, and no RuntimeConfig
MissingSourceError ==
    /\ cfgOut.res = "ConfigError_no_source"
    /\ {"--openapi-spec", "MCP_PROXY_SPEC", "MCP_OPENAPI_SPEC", "configuration file"}
          \subseteq Names(cfgOut.res)
    /\ cfgOut.config = NoConfig

\* C9 as stated: whenever no layer supplies a source, load_runtime_config
\* raises the ConfigError that names the command-line parameter, the
\* environment variables and the configuration file, and returns no
\* RuntimeConfig.
C9_NoSourceRaises ==
    Called /\ NoSource => MissingSourceError

\* The steps of load_runtime_config that come before the source is resolved
\* succeed: the command line parses, the configuration file named (if any)
\* loads, the environment values convert.
LayersRead ==
    LET parsed == parse_known_args(cfgIn.argv)
        path == Or(parsed.args["config_file"], EnvGet(cfgIn.env, ENV_PREFIX \o "CONFIG"))
    IN  /\ parsed.err = "ok"
        /\ Truthy(path) => _load_config_file(path, cfgIn.file).err = "ok"
        /\ _extract_env_config(cfgIn.env).err = "ok"

\* C9 as amended: when no layer supplies a source and the command line, the
\* configuration file and the environment values are read without error,
\* load_runtime_config raises the ConfigError that names the command-line
\* parameter, the environment variables and the configuration file, and
\* returns no RuntimeConfig.
C9_NoSourceRaisesOnceRead ==
    Called /\ NoSource /\ LayersRead => MissingSourceError

\* C9 witness: a configuration file without openapi_spec was read and no other
\* layer names a source; the call raised the missing-source error.
C9_Witness ==
    /\ NoSource
    /\ cfgIn.file.exists
    /\ LayersRead
    /\ MissingSourceError

\* The merged mapping of load_runtime_config: file, then environment, then
\* command line
MergedData ==
    LET parsed == parse_known_args(cfgIn.argv)
        path == Or(parsed.args["config_file"], EnvGet(cfgIn.env, ENV_PREFIX \o "CONFIG"))
        config_data == IF Truthy(path) THEN _load_config_file(path, cfgIn.file).data
                       ELSE EmptyDict
    IN  Update(Update(config_data, _extract_env_config(cfgIn.env).data),
               _extract_cli_config(parsed.args))

MergedScheme ==
    Lower(IF "auth_type" \in DOMAIN MergedData THEN MergedData["auth_type"] ELSE "none")

\* The error the merged authentication settings call for, "ok" when they are
\* complete
AuthError ==
    CASE MergedScheme = "bearer" /\ ~Truthy(Get(MergedData, "auth_token")) ->
           "ConfigError_bearer"
      [] MergedScheme = "basic" /\ (Get(MergedData, "auth_username") = None
                                    \/ Get(MergedData, "auth_password") = None) ->
           "ConfigError_basic"
      [] MergedScheme = "header" /\ Len(ListOf(MergedData, "auth_headers")) = 0 ->
           "ConfigError_auth_header"
      [] MergedScheme = "api-key" /\ Get(MergedData, "auth_key_value") = None ->
           "ConfigError_api_key"
      [] MergedScheme = "api-key"
         /\ Or(Get(MergedData, "auth_key_location"), "header")
               \notin {"header", "query", "cookie"} ->
           "ConfigError_location"
      [] OTHER -> "ok"

\* The errors that are ConfigError
ConfigErrors ==
    {"ConfigError_missing_file", "ConfigError_not_mapping", "ConfigError_bool",
     "ConfigError_no_source", "ConfigError_header", "ConfigError_bearer",
     "ConfigError_basic", "ConfigError_auth_header", "ConfigError_api_key",
     "ConfigError_location"}

\* C11: once the three layers are read, load_runtime_config raises ConfigError
\* and returns no RuntimeConfig when the merged scheme is bearer without a
\* token, basic without a username or a password, header without an auth
\* header pair, or api-key without a value or with a location outside
\* header/query/cookie (the error is that of the scheme when a source and the
\* headers resolve); a returned api-key configuration has the name X-API-Key
\* when none is given and the location header when none is given.
C11_IncompleteAuthRaises ==
    Called /\ LayersRead =>
        /\ AuthError # "ok" =>
              /\ cfgOut.res \in ConfigErrors
              /\ cfgOut.config = NoConfig
              /\ cfgOut.res \notin {"ConfigError_no_source", "ConfigError_header"}
                 => cfgOut.res = AuthError
        /\ Resolved /\ MergedScheme = "api-key" =>
              /\ cfgOut.config.auth.api_key_name
                    = Or(Get(MergedData, "auth_key_name"), "X-API-Key")
              /\ cfgOut.config.auth.api_key_location
                    = Or(Get(MergedData, "auth_key_location"), "header")

\* C11 witness: --auth-type bearer beside a source and no token in any layer;
\* the call raised the bearer error.
C11_Witness ==
    /\ Called
    /\ LayersRead
    /\ CliSupplies("openapi_spec")
    /\ MergedScheme = "bearer"
    /\ Get(MergedData, "auth_token") = None
    /\ cfgOut.res = "ConfigError_bearer"
    /\ cfgOut.config = NoConfig

\* The schemes both _build_auth_config and create_auth_strategy know
KnownSchemes == {"none", "bearer", "basic", "header", "api-key"}

\* C12: when the layers are read and the merged auth_type, in lower case, is
\* not empty and outside none/bearer/basic/header/api-key, load_runtime_config
\* raises no authentication error: with a source supplied it returns a
\* RuntimeConfig whose auth.scheme is that scheme; create_auth_strategy, as
\* create_http_client calls it on that RuntimeConfig, raises the error that
\* names the unsupported scheme, and no client is built.
C12_UnknownSchemeRejectedLate ==
    Called /\ LayersRead /\ MergedScheme \notin KnownSchemes \cup {""} =>
        /\ cfgOut.res \in {"ok", "ConfigError_no_source"}
        /\ ~NoSource =>
              /\ Resolved
              /\ cfgOut.config.auth.scheme = MergedScheme
        /\ client.res # None =>
              /\ authIn = cfgOut.config.auth
              /\ strategy.res = "ValueError_scheme"
              /\ strategy.names = MergedScheme
              /\ client.res = "ValueError_scheme"
              /\ client.keys = {}

\* C12 witness: MCP_PROXY_AUTH_TYPE=digest beside a source was resolved into a
\* RuntimeConfig with scheme digest, and create_http_client failed in
\* create_auth_strategy.
C12_Witness ==
    /\ Resolved
    /\ MergedScheme = "digest"
    /\ cfgOut.config.auth.scheme = "digest"
    /\ strategy.res = "ValueError_scheme"
    /\ strategy.names = "digest"
    /\ client.res = "ValueError_scheme"

\* C14: once the command line is parsed, every failure of load_runtime_config
\* caused by its input (a missing required field, a configuration file that
\* is missing, malformed or not a mapping, an unparsable boolean or proxy
\* value, no specification source) is raised as ConfigError, and no
\* RuntimeConfig is returned.
C14_InputFailuresAreConfigError ==
    Called /\ parse_known_args(cfgIn.argv).err = "ok" /\ ~Resolved =>
        /\ cfgOut.res \in ConfigErrors
        /\ cfgOut.config = NoConfig

\* C15: a RuntimeConfig resolved from a command line with neither --verify-ssl
\* nor --no-verify-ssl has the verify_ssl of the environment, else of the
\* configuration file, else True; create_http_client passes the RuntimeConfig's
\* verify_ssl unchanged as the client's verify.
C15_VerifyDefaultsTrue ==
    /\ Resolved /\ ~CliSupplies("verify_ssl") =>
          cfgOut.config.client.verify_ssl
             = IF EnvSupplies("verify_ssl") THEN EnvGives("verify_ssl")
               ELSE IF FileSupplies("verify_ssl") THEN cfgIn.file.data["verify_ssl"]
               ELSE "True"
    /\ client.res = "ok" =>
          /\ "verify" \in client.keys
          /\ client.verify = cfgOut.config.client.verify_ssl

\* The position of the first "=" or ":" of a header string, 0 when it has none
FirstSeparator(raw) ==
    IF \E i \in 1..Len(raw) : raw[i] \in {"=", ":"}
    THEN CHOOSE i \in 1..Len(raw) :
            /\ raw[i] \in {"=", ":"}
            /\ \A j \in 1..(i - 1) : raw[j] \notin {"=", ":"}
    ELSE 0

\* The header strings the command line, the environment and the file give
HeaderStrings ==
    {Applied("headers")[i] : i \in 1..Len(Applied("headers"))}
    \cup {Applied("auth_headers")[i] : i \in 1..Len(Applied("auth_headers"))}

\* C16: _parse_key_value splits a header string at the first "=" or ":" in it,
\* whichever comes first, and trims both sides; a string with neither raises
\* ConfigError.
C16_SplitAtFirstSeparator ==
    Called =>
        \A raw \in HeaderStrings :
            LET at == FirstSeparator(raw)
                kv == _parse_key_value(raw)
            IN  IF at = 0 THEN kv.err = "ConfigError_header"
                ELSE /\ kv.err = "ok"
                     /\ kv.key = Join(Strip(SubSeq(raw, 1, at - 1)))
                     /\ kv.value = Join(Strip(SubSeq(raw, at + 1, Len(raw))))

(***************************************************************************)
(* Properties of the HTTP client factory.                                  *)
(***************************************************************************)
\* create_http_client has returned a client for cfgOut.config and document
Built == client.res = "ok"

\* The servers entries whose url is a string that is not blank
Usable ==
    {i \in 1..Len(document.servers) :
        /\ document.servers[i].mapping
        /\ document.servers[i].has_url
        /\ \E j \in 1..Len(document.servers[i].url) : document.servers[i].url[j] # " "}

\* The first of them in list order
FirstUsable == CHOOSE i \in Usable : \A j \in Usable : i <= j

\* C22: the client create_http_client builds targets RuntimeConfig.base_url
\* when one is set (a non-empty string); otherwise the url, trimmed, of the
\* first entry in list order of the document's servers list whose url is a
\* non-blank string; otherwise no base URL is given to the client.
C22_BaseUrlPrecedence ==
    Built =>
        IF Truthy(cfgOut.config.base_url)
        THEN /\ "base_url" \in client.keys
             /\ client.base_url = cfgOut.config.base_url
        ELSE IF document.has_servers /\ Usable # {}
        THEN /\ "base_url" \in client.keys
             /\ client.base_url = Join(Strip(document.servers[FirstUsable].url))
        ELSE /\ "base_url" \notin client.keys
             /\ client.base_url = None

\* C22 witness: no base_url configured and a servers list whose first two
\* entries are unusable; the client targets the url of the third, not the
\* fourth.
C22_Witness ==
    /\ Built
    /\ cfgOut.config.base_url = None
    /\ Len(document.servers) = 4
    /\ FirstUsable = 3
    /\ client.base_url = "https://s2"

\* C23: the headers given to the client create_http_client builds are
\* RuntimeConfig.headers overlaid with the AuthStrategy headers: a key on one
\* side only keeps its value, a key on both sides carries the AuthStrategy
\* value.
C23_StrategyHeadersWin ==
    Built =>
        /\ DOMAIN client.headers
              = DOMAIN cfgOut.config.headers \cup DOMAIN strategy.headers
        /\ \A h \in DOMAIN client.headers :
              client.headers[h] = IF h \in DOMAIN strategy.headers
                                  THEN strategy.headers[h]
                                  ELSE cfgOut.config.headers[h]
        /\ ("headers" \in client.keys) = (DOMAIN client.headers # {})

\* C23 witness: a static Authorization header and a bearer token; the client
\* sends the bearer Authorization, the other static header and the extra
\* header of the strategy.
C23_Witness ==
    /\ Built
    /\ cfgOut.config.headers = ("Authorization" :> "static") @@ ("X-S" :> "s")
    /\ strategy.headers = ("Authorization" :> "Bearer tok") @@ ("X-A" :> "a")
    /\ client.headers
          = ("Authorization" :> "Bearer tok") @@ ("X-S" :> "s") @@ ("X-A" :> "a")

\* C27: every AuthConfig load_runtime_config returns with a scheme among none,
\* bearer, basic, header and api-key is accepted by create_auth_strategy, as
\* create_http_client calls it; resolving a merged configuration fails only
\* with the error for an unknown scheme.
C27_MergedAuthAccepted ==
    Resolved /\ client.res # None =>
        /\ authIn = cfgOut.config.auth
        /\ authIn.scheme \in KnownSchemes => strategy.res = "ok" /\ Built
        /\ strategy.res # "ok" =>
              /\ strategy.res = "ValueError_scheme"
              /\ authIn.scheme \notin KnownSchemes

\* C27 witness: --auth-type api-key with an empty --auth-key-value passed the
\* merge, and create_auth_strategy accepted the AuthConfig: the client sends
\* the empty key.
C27_Witness ==
    /\ Resolved
    /\ Built
    /\ authIn = cfgOut.config.auth
    /\ authIn.scheme = "api-key"
    /\ authIn.api_key_value = ""
    /\ strategy.res = "ok"
    /\ strategy.headers = ("X-API-Key" :> "")

(***************************************************************************)
(* Properties of the authentication strategies.  The headers of a strategy *)
(* are the scheme's own entry with extra_headers laid over it.             *)
(***************************************************************************)
\* create_auth_strategy has been called on authIn
Resolving == strategy.res # None

\* The scheme create_auth_strategy reads from authIn
GivenScheme == Lower(Or(authIn.scheme, "none"))

\* The views hold no entry and no handler
NoParams == strategy.query_params = EmptyDict

NoCookies == strategy.cookies = EmptyDict

\* The headers are extra_headers and the scheme's own header name = value,
\* which an extra header of the same name replaces
OwnHeader(name, value) ==
    /\ DOMAIN strategy.headers = {name} \cup DOMAIN authIn.extra_headers
    /\ \A h \in DOMAIN authIn.extra_headers : strategy.headers[h] = authIn.extra_headers[h]
    /\ name \notin DOMAIN authIn.extra_headers => strategy.headers[name] = value

\* C18: for scheme bearer with a non-empty token, create_auth_strategy yields
\* Authorization = "Bearer <token>" as the scheme's header, no query parameter,
\* no cookie and no auth handler; with the token missing or empty it raises an
\* error and yields no strategy.
C18_BearerHeader ==
    Resolving /\ GivenScheme = "bearer" =>
        IF Truthy(authIn.token)
        THEN /\ strategy.res = "ok"
             /\ OwnHeader("Authorization", "Bearer " \o authIn.token)
             /\ NoParams
             /\ NoCookies
             /\ strategy.auth = None
        ELSE strategy.res = "ValueError_bearer"

\* C18 witness: scheme Bearer with token abc resolved to the header
\* Authorization = "Bearer abc" beside an extra header.
C18_Witness ==
    /\ authIn.scheme = "Bearer"
    /\ authIn.token = "abc"
    /\ authIn.extra_headers = ("X-Extra" :> "e")
    /\ strategy.res = "ok"
    /\ strategy.headers = ("Authorization" :> "Bearer abc") @@ ("X-Extra" :> "e")

\* C19: a strategy create_auth_strategy returns has an auth handler exactly
\* when the scheme is basic (with username and password present, or the call
\* raises an error); for basic the handler carries the username and password,
\* the headers hold only extra_headers, and there is no query parameter and no
\* cookie.
C19_BasicHandlerOnly ==
    Resolving =>
        /\ strategy.res = "ok" => (strategy.auth # None <=> GivenScheme = "basic")
        /\ GivenScheme = "basic" =>
              IF authIn.username # None /\ authIn.password # None
              THEN /\ strategy.res = "ok"
                   /\ strategy.auth = BasicAuth(authIn.username, authIn.password)
                   /\ strategy.headers = authIn.extra_headers
                   /\ NoParams
                   /\ NoCookies
              ELSE strategy.res = "ValueError_basic" /\ strategy.auth = None

\* C19 witness: scheme basic with user and pw resolved to a handler, the
\* headers being the one extra header.
C19_Witness ==
    /\ authIn.scheme = "basic"
    /\ authIn.username = "user"
    /\ authIn.password = "pw"
    /\ authIn.extra_headers = ("X-Extra" :> "e")
    /\ strategy.res = "ok"
    /\ strategy.auth = BasicAuth("user", "pw")
    /\ strategy.headers = ("X-Extra" :> "e")

\* The name and the location create_auth_strategy gives an API key
KeyName == Or(authIn.api_key_name, "X-API-Key")

KeyLocation == Lower(Or(authIn.api_key_location, "header"))

\* C20: for scheme api-key with a value, create_auth_strategy puts the key
\* under its name into the one view its location (header, query or cookie, in
\* any case; header when none is given) selects and adds no entry of the
\* scheme to the other two; a missing value or another location raises an
\* error.
C20_ApiKeyInOneView ==
    Resolving /\ GivenScheme = "api-key" =>
        IF authIn.api_key_value = None THEN strategy.res = "ValueError_api_key"
        ELSE IF KeyLocation \notin {"header", "query", "cookie"}
        THEN strategy.res = "ValueError_location"
        ELSE /\ strategy.res = "ok"
             /\ strategy.auth = None
             /\ KeyLocation = "header" =>
                   /\ OwnHeader(KeyName, authIn.api_key_value)
                   /\ NoParams
                   /\ NoCookies
             /\ KeyLocation = "query" =>
                   /\ strategy.query_params = (KeyName :> authIn.api_key_value)
                   /\ strategy.headers = authIn.extra_headers
                   /\ NoCookies
             /\ KeyLocation = "cookie" =>
                   /\ strategy.cookies = (KeyName :> authIn.api_key_value)
                   /\ strategy.headers = authIn.extra_headers
                   /\ NoParams

\* C20 witness: the key named key with location query went into the query
\* parameters alone.
C20_Witness ==
    /\ authIn.scheme = "api-key"
    /\ authIn.api_key_name = "key"
    /\ authIn.api_key_value = "kv"
    /\ authIn.api_key_location = "query"
    /\ strategy.res = "ok"
    /\ strategy.query_params = ("key" :> "kv")
    /\ strategy.cookies = EmptyDict
    /\ strategy.headers = authIn.extra_headers

\* C21: for every scheme that resolves, the strategy's headers hold every entry
\* of AuthConfig.extra_headers with the extra header's value, also where the
\* extra header has the name of the scheme's own header (Authorization for
\* bearer, the configured name for header and for api-key in the header).
C21_ExtraHeadersOnTop ==
    Resolving /\ strategy.res = "ok" =>
        \A h \in DOMAIN authIn.extra_headers :
            /\ h \in DOMAIN strategy.headers
            /\ strategy.headers[h] = authIn.extra_headers[h]

\* C21 witness: scheme bearer with token abc and an extra header named
\* Authorization resolved; the Authorization sent is the extra header's.
C21_Witness ==
    /\ authIn.scheme = "bearer"
    /\ authIn.token = "abc"
    /\ authIn.extra_headers = ("Authorization" :> "Basic zzz")
    /\ strategy.res = "ok"
    /\ strategy.headers = ("Authorization" :> "Basic zzz")

(***************************************************************************)
(* Properties of the singletons.                                           *)
(***************************************************************************)
\* C10: once a proxy exists for the pinned source S, a get_proxy_instance
\* (get_mcp_instance) call with another source raises RuntimeError and changes
\* neither the proxy nor the pinned source, and a call with S or with no source
\* returns that same proxy: no such call builds a proxy again.  The same holds
\* of the get_mcp_instance call that run of mcp_cnb_knowledge makes with the
\* source of its command line or environment.
C10_NoSwitchOnceCreated ==
    [][ /\ (/\ tick' # tick
            /\ lastGet'.fn = "get_proxy_instance"
            /\ registry.proxy.id # 0)
           => /\ registry' = registry
              /\ ~lastGet'.built
              /\ IF lastGet'.arg \notin {None, registry.source}
                 THEN lastGet'.res = "RuntimeError_switch"
                 ELSE lastGet'.res = "ok" /\ lastGet'.inst = registry.proxy
        /\ (/\ tick' # tick
            /\ lastGet'.fn = "get_mcp_instance"
            /\ mcp.id # 0)
           => /\ mcp' = mcp
              /\ pinned' = pinned
              /\ ~lastGet'.built
              /\ IF lastGet'.arg \notin {None, pinned}
                 THEN lastGet'.res = "RuntimeError_switch"
                 ELSE lastGet'.res = "ok" /\ lastGet'.inst = mcp
        /\ (/\ tick' # tick
            /\ lastGet'.fn = "cnb_run"
            /\ lastGet'.arg # None
            /\ mcp.id # 0)
           => /\ mcp' = mcp
              /\ pinned' = pinned
              /\ ~lastGet'.built
              /\ IF lastGet'.arg # pinned
                 THEN lastGet'.res = "RuntimeError_switch"
                 ELSE lastGet'.res = "ok" /\ lastGet'.inst = mcp ]_vars

\* C10 witness: with a proxy built for a.yaml in place, a get_proxy_instance
\* call for b.yaml has just been refused.
C10_Witness ==
    /\ registry.proxy.id # 0
    /\ registry.source = "a.yaml"
    /\ lastGet.fn = "get_proxy_instance"
    /\ lastGet.arg = "b.yaml"
    /\ lastGet.res = "RuntimeError_switch"

\* A get_proxy_instance call that reached ProxyRegistry.get
ReachedGet ==
    /\ tick' # tick
    /\ lastGet'.fn = "get_proxy_instance"
    /\ lastGet'.res \notin {"RuntimeError_uninitialised", "RuntimeError_switch"}

\* C28: across the ProxyRegistry.get calls on one registry the proxy is built
\* at most once successfully.  A get on a registry that holds a proxy returns
\* that proxy and builds nothing; a get on a registry that holds none attempts
\* construction: when that fails the error propagates and no proxy is stored,
\* so the next get attempts it again, and when it succeeds the proxy built is
\* stored and returned.
C28_BuiltAtMostOnce ==
    [][ ReachedGet =>
          IF registry.set /\ registry.proxy.id # 0
          THEN /\ ~lastGet'.built
               /\ lastGet'.res = "ok"
               /\ lastGet'.inst = registry.proxy
               /\ registry' = registry
               /\ nextId' = nextId
          ELSE /\ lastGet'.built
               /\ registry'.set
               /\ IF lastGet'.res = "ok"
                  THEN /\ lastGet'.inst.id = nextId + 1
                       /\ registry'.proxy = lastGet'.inst
                  ELSE /\ lastGet'.res \in CreateProxyOutcomes
                       /\ lastGet'.inst = NoInstance
                       /\ registry'.proxy = NoInstance
                       /\ nextId' = nextId ]_vars

\* C28 witness: a get_proxy_instance call with no configuration has just
\* returned the proxy built before, without building.
C28_Witness ==
    /\ lastGet.fn = "get_proxy_instance"
    /\ lastGet.arg = None
    /\ lastGet.res = "ok"
    /\ ~lastGet.built
    /\ registry.proxy.id = 1
    /\ lastGet.inst = registry.proxy
    /\ nextId = 1

\* C29: the pinned source is fixed by the first get_proxy_instance
\* (get_mcp_instance) call that supplies one while none is pinned, before the
\* proxy is built and whether or not building succeeds; no later call of the
\* two changes it, and a call with another source raises the source-mismatch
\* RuntimeError and builds nothing, also when no proxy exists yet.  A
\* get_proxy_instance call with no configuration while nothing is pinned raises
\* RuntimeError and pins nothing.  The get_mcp_instance call that run of
\* mcp_cnb_knowledge makes is one of these calls.
C29_PinnedBeforeBuild ==
    [][ /\ (tick' # tick /\ lastGet'.fn = "get_proxy_instance") =>
              /\ ~registry.set /\ lastGet'.arg # None =>
                    /\ lastGet'.built
                    /\ registry'.set
                    /\ registry'.source = lastGet'.arg
              /\ ~registry.set /\ lastGet'.arg = None =>
                    /\ lastGet'.res = "RuntimeError_uninitialised"
                    /\ ~lastGet'.built
                    /\ registry' = NoRegistry
              /\ registry.set =>
                    /\ registry'.set
                    /\ registry'.source = registry.source
              /\ registry.set /\ lastGet'.arg \notin {None, registry.source} =>
                    /\ lastGet'.res = "RuntimeError_switch"
                    /\ ~lastGet'.built
                    /\ registry' = registry
        /\ (tick' # tick /\ lastGet'.fn \in {"get_mcp_instance", "cnb_run"}) =>
              /\ pinned = None /\ lastGet'.arg # None => pinned' = lastGet'.arg
              /\ pinned # None => pinned' = pinned
              /\ pinned # None /\ lastGet'.arg \notin {None, pinned} =>
                    /\ lastGet'.res = "RuntimeError_switch"
                    /\ ~lastGet'.built
                    /\ mcp' = mcp ]_vars

\* C29 witness: the first get_proxy_instance call, for a.yaml, failed to build
\* a proxy; no proxy has ever been built, and a call for b.yaml has just been
\* refused as a switch of source.
C29_Witness ==
    /\ registry.set
    /\ registry.source = "a.yaml"
    /\ registry.proxy = NoInstance
    /\ nextId = 0
    /\ lastGet.fn = "get_proxy_instance"
    /\ lastGet.arg = "b.yaml"
    /\ lastGet.res = "RuntimeError_switch"

====
